---- MODULE Spec2Model ----
(***************************************************************************)
(* Verification model of the shader-canvas compositing core:               *)
(*   - hasEffect / active-layer selection        (lib/webgl/compositor.ts) *)
(*   - PingPongBuffer                            (lib/webgl/framebuffer.ts)*)
(*   - TextureCache                              (lib/webgl/texture.ts)    *)
(*   - ShaderProgramManager, QuadRenderer        (lib/webgl/quad.ts)       *)
(*   - ShaderCompositor.resize/render/dispose    (lib/webgl/compositor.ts) *)
(*   - the processed-image cache                 (hooks/use-shader-renderer)*)
(*                                                                         *)
(* Conventions.  Numeric layer properties are fixed-point hundredths       *)
(* (0.2 is 20, 1 is 100), so that the comparisons of hasEffect against 0   *)
(* and 1 are exact.  Strings that the code inspects character by character *)
(* (image urls, cache keys) are sequences of one-character strings.        *)
(* A GL creation call that may return null takes its outcome as an         *)
(* argument; the actions choose the outcomes nondeterministically.         *)
(***************************************************************************)
EXTENDS Integers, Sequences, FiniteSets, TLC

(***************************************************************************)
(* Bounds of the model.                                                    *)
(***************************************************************************)
\* longest layer list handed to render
MaxLayers == 3
\* output widths are 1..MaxWidth, heights 1..MaxHeight
MaxWidth == 2
MaxHeight == 1

(***************************************************************************)
(* Shader layers: types, defaults, createShaderLayer.                      *)
(***************************************************************************)
ShaderTypes ==
  { "brightness", "contrast", "blur", "saturation", "hue-rotate", "invert",
    "exposure", "color-correction", "blend-mode", "film-grain", "duotone",
    "pixelate", "threshold", "dither", "vignette", "chromatic-aberration",
    "lut", "halation", "bloom" }

\* SHADER_DEFAULTS, values in hundredths
SHADER_DEFAULTS(type) ==
  CASE type = "brightness" -> [value |-> 0]
    [] type = "contrast" -> [value |-> 0]
    [] type = "blur" -> [radius |-> 0, quality |-> 800]
    [] type = "saturation" -> [value |-> 100]
    [] type = "hue-rotate" -> [degrees |-> 0]
    [] type = "invert" -> [amount |-> 0]
    [] type = "exposure" -> [value |-> 100]
    [] type = "color-correction" ->
         [brightness |-> 0, contrast |-> 0, exposure |-> 100, saturation |-> 100]
    [] type = "blend-mode" ->
         [mode |-> "multiply", color |-> <<100, 50, 0>>, opacity |-> 50]
    [] type = "film-grain" -> [intensity |-> 30, size |-> 150]
    [] type = "duotone" ->
         [shadowColor |-> <<10, 0, 20>>, highlightColor |-> <<100, 90, 50>>]
    [] type = "pixelate" -> [size |-> 800]
    [] type = "threshold" -> [value |-> 50]
    [] type = "dither" -> [scale |-> 100]
    [] type = "vignette" -> [size |-> 25, roundness |-> 50, smoothness |-> 50]
    [] type = "chromatic-aberration" -> [offset |-> 2]
    [] type = "lut" -> [lutUrl |-> "", intensity |-> 100]
    [] type = "halation" ->
         [threshold |-> 70, intensity |-> 30, spread |-> 800, tint |-> <<100, 30, 10>>]
    [] type = "bloom" ->
         [threshold |-> 60, intensity |-> 50, radius |-> 1000, exposure |-> 100]

createShaderLayer(type, id, order) ==
  [id |-> id, type |-> type, enabled |-> TRUE, order |-> order,
   properties |-> SHADER_DEFAULTS(type)]

\* types/shader.ts declares six of the types, with a table of its own
CoreShaderTypes ==
  { "brightness", "contrast", "blur", "saturation", "hue-rotate", "invert" }

\* SHADER_DEFAULTS of types/shader.ts, values in hundredths
CORE_SHADER_DEFAULTS(type) ==
  CASE type = "brightness" -> [value |-> 0]
    [] type = "contrast" -> [value |-> 100]
    [] type = "blur" -> [radius |-> 0, quality |-> 800]
    [] type = "saturation" -> [value |-> 100]
    [] type = "hue-rotate" -> [degrees |-> 0]
    [] type = "invert" -> [amount |-> 0]

\* createShaderLayer of types/shader.ts
createCoreShaderLayer(type, id, order) ==
  [id |-> id, type |-> type, enabled |-> TRUE, order |-> order,
   properties |-> CORE_SHADER_DEFAULTS(type)]

(***************************************************************************)
(* hasEffect and the active-layer list of render.                          *)
(***************************************************************************)
hasEffect(layer) ==
  IF ~layer.enabled THEN FALSE
  ELSE CASE layer.type = "brightness" -> layer.properties.value # 0
         [] layer.type = "contrast" -> layer.properties.value # 0
         [] layer.type = "exposure" -> layer.properties.value # 100
         [] layer.type = "saturation" -> layer.properties.value # 100
         [] layer.type = "invert" -> layer.properties.amount > 0
         [] layer.type = "color-correction" ->
              \/ layer.properties.brightness # 0
              \/ layer.properties.contrast # 0
              \/ layer.properties.exposure # 100
              \/ layer.properties.saturation # 100
         [] layer.type = "blur" -> layer.properties.radius > 0
         [] layer.type = "hue-rotate" -> layer.properties.degrees # 0
         [] layer.type = "blend-mode" -> layer.properties.opacity > 0
         [] OTHER -> TRUE

\* layers.filter(hasEffect), as the ascending sequence of the kept positions
filterHasEffect(layers) ==
  SelectSeq([i \in 1..Len(layers) |-> i], LAMBDA i : hasEffect(layers[i]))

\* where a stable sort by order puts position x into the sorted prefix
InsertUnstable(sorted, x, layers) ==
  LET k == Cardinality({j \in 1..Len(sorted) :
                          layers[sorted[j]].order < layers[x].order})
  IN  SubSeq(sorted, 1, k) \o <<x>> \o SubSeq(sorted, k + 1, Len(sorted))

InsertByOrder(sorted, x, layers) ==
  LET k == Cardinality({j \in 1..Len(sorted) :
                          layers[sorted[j]].order <= layers[x].order})
  IN  SubSeq(sorted, 1, k) \o <<x>> \o SubSeq(sorted, k + 1, Len(sorted))

RECURSIVE sortByOrder(_, _, _)
\* .sort((a, b) => a.order - b.order): Array.prototype.sort is stable
sortByOrder(idx, sorted, layers) ==
  IF idx = <<>> THEN sorted
  ELSE sortByOrder(Tail(idx), InsertByOrder(sorted, Head(idx), layers), layers)

\* positions (in the input list) of the active layers, in pass order
activeIndices(layers) == sortByOrder(filterHasEffect(layers), <<>>, layers)

\* const activeLayers = layers.filter(hasEffect).sort(...)
activeLayersOf(layers) ==
  LET idx == activeIndices(layers) IN [k \in 1..Len(idx) |-> layers[idx[k]]]

(***************************************************************************)
(* GL handles as the compositor sees them.                                 *)
(***************************************************************************)
NullHandle == [kind |-> "null", index |-> 0, url |-> <<>>]
\* the texture TextureCache holds for an image url
ImageTexture(url) == [kind |-> "imageTexture", index |-> 0, url |-> url]
\* framebuffer object / attached texture of ping-pong slot i
FramebufferHandle(i) == [kind |-> "framebuffer", index |-> i, url |-> <<>>]
FramebufferTexture(i) == [kind |-> "framebufferTexture", index |-> i, url |-> <<>>]

(***************************************************************************)
(* createFramebuffer and PingPongBuffer.                                   *)
(***************************************************************************)
NoFramebuffer == [exists |-> FALSE, width |-> 0, height |-> 0]

\* outcomes of one createFramebuffer call: success, gl.createFramebuffer
\* returned null, createEmptyTexture returned null, status not complete
FramebufferOutcomes == {"ok", "noFramebuffer", "noTexture", "incomplete"}

createFramebuffer(w, h, outcome) ==
  IF outcome = "ok" THEN [exists |-> TRUE, width |-> w, height |-> h]
  ELSE NoFramebuffer

\* new PingPongBuffer(gl)
PingPongInit ==
  [framebuffers |-> [i \in 0..1 |-> NoFramebuffer],
   currentIndex |-> 0, width |-> 0, height |-> 0]

PingPongDispose(pp) ==
  [pp EXCEPT !.framebuffers = [i \in 0..1 |-> NoFramebuffer]]

PingPongResize(pp, w, h, o0, o1) ==
  IF pp.width = w /\ pp.height = h THEN pp
  ELSE [PingPongDispose(pp) EXCEPT
          !.width = w, !.height = h,
          !.framebuffers = [i \in 0..1 |->
             createFramebuffer(w, h, IF i = 0 THEN o0 ELSE o1)]]

getReadTexture(pp) ==
  IF pp.framebuffers[pp.currentIndex].exists
  THEN FramebufferTexture(pp.currentIndex) ELSE NullHandle

writeIndexFlipped(pp) == pp.currentIndex

writeIndex(pp) == (pp.currentIndex + 1) % 2

getWriteFramebuffer(pp) ==
  IF pp.framebuffers[writeIndex(pp)].exists
  THEN FramebufferHandle(writeIndex(pp)) ELSE NullHandle

swapKeepsIndex(pp) == pp

swap(pp) == [pp EXCEPT !.currentIndex = (pp.currentIndex + 1) % 2]

reset(pp) == [pp EXCEPT !.currentIndex = 0]

(***************************************************************************)
(* TextureCache, ShaderProgramManager, QuadRenderer.                       *)
(***************************************************************************)
\* TextureCache.getTexture: textures is the key set of the Map; created is
\* the outcome of createTextureFromImage when the url is not cached
getTexture(textures, url, created) ==
  IF url \in textures
  THEN [texture |-> ImageTexture(url), textures |-> textures]
  ELSE IF created
       THEN [texture |-> ImageTexture(url), textures |-> textures \cup {url}]
       ELSE [texture |-> NullHandle, textures |-> textures]

\* ShaderProgramManager.getProgram: programs is the key set of the Map;
\* created is the outcome of createProgram when the key is not cached
getProgram(programs, key, created) ==
  IF key \in programs THEN [ok |-> TRUE, programs |-> programs]
  ELSE IF created
       THEN [ok |-> TRUE, programs |-> programs \cup {key}]
       ELSE [ok |-> FALSE, programs |-> programs]

\* drawQuad: gl.drawArrays(gl.TRIANGLES, 0, 6)
QuadVertexCount == 6

\* new QuadRenderer(gl): either creation call may return null
QuadInit(bufferOk, vaoOk) == [buffer |-> bufferOk, vao |-> vaoOk]

QuadDispose == [buffer |-> FALSE, vao |-> FALSE]

\* QuadRenderer.setupForProgram binds the attribute only with vao and buffer
setupForProgram(quad) == quad.vao /\ quad.buffer

\* QuadRenderer.draw issues the draw call only with a vao
drawIssued(quad) == quad.vao

(***************************************************************************)
(* State.                                                                  *)
(***************************************************************************)
VARIABLES
  width,          \* ShaderCompositor.width
  height,         \* ShaderCompositor.height
  pingPong,       \* ShaderCompositor.pingPong : PingPongBuffer
  programs,       \* keys of ShaderProgramManager.programs
  textures,       \* keys of TextureCache.textures
  quad,           \* QuadRenderer.buffer / .vao (TRUE = not null)
  last            \* what the latest render call did (GL commands it issued)

compositorVars == <<width, height, pingPong, programs, textures, quad, last>>

\* useShaderRenderer (hooks/use-shader-renderer.ts)
VARIABLES
  compositorRef,  \* compositorRef.current is not null
  processedCache, \* processedCacheRef.current: the Map's entries, in insertion order
  clock,          \* number of entries put into processedCache so far
  returned        \* what the latest call of the hook did and returned

hookVars == <<compositorRef, processedCache, clock, returned>>

\* a pure function under evaluation: its argument, its result, and whether
\* it has been applied
VARIABLES arg, ret, phase

pureVars == <<arg, ret, phase>>

\* the GL objects behind ShaderProgramManager, TextureCache and
\* PingPongBuffer, when they are followed handle by handle
VARIABLES
  glObjects,      \* the context's objects: created so far, live, deleted
  programManager, \* ShaderProgramManager.programs, with the compile history
  textureCache,   \* TextureCache.textures, with the creation history
  pingPongBuffer, \* a PingPongBuffer whose framebuffers hold their GL objects
  quadRenderer,   \* QuadRenderer.buffer and QuadRenderer.vao as GL objects
  glReturn        \* what the latest call on one of these did and returned

glVars ==
  <<glObjects, programManager, textureCache, pingPongBuffer, quadRenderer, glReturn>>

\* the state store of the canvas: canvasStateAtom's images, with their
\* shader layers
VARIABLES
  images,      \* get(imagesAtom): the array of CanvasImage
  selectedImageIds, \* get(selectedImageIdsAtom): the array of selected ids
  generated,   \* the number of generateId() calls made so far
  storeReturn  \* the latest store action: its name, payload and return value

\* the canvas component and its interaction hooks
VARIABLES
  interactionMode,    \* useState<InteractionMode>: idle, panning, dragging,
                      \* resizing
  cursor,             \* useState: the css cursor of the container
  resizeOperationRef, \* useResizeHandles: the resize under way, or null
  isResizingRef,      \* useResizeHandles: the pointer moved while resizing
  hoveredHandleRef,   \* useResizeHandles: the handle under the pointer
  dragOperationRef,   \* useDragSelect: the drag under way, or null
  isDraggingRef,      \* useDragSelect: the pointer moved while dragging
  isPanningRef,       \* useCanvasTransform: a pan is under way
  lastPointerRef,     \* useCanvasTransform: the last pointer of the pan
  mouseEvent          \* the latest mouse event handled by the canvas

interactionVars ==
  <<interactionMode, cursor, resizeOperationRef, isResizingRef,
    hoveredHandleRef, dragOperationRef, isDraggingRef, isPanningRef,
    lastPointerRef, mouseEvent>>

storeVars ==
  <<images, selectedImageIds, generated, storeReturn, interactionVars>>

vars == <<compositorVars, hookVars, pureVars, glVars, storeVars>>

\* no call of the hook has run
NoCall ==
  [op |-> "none", result |-> "none", key |-> <<>>, url |-> <<>>,
   width |-> 0, height |-> 0]

\* the hook is not mounted
HookUnmounted ==
  /\ compositorRef = FALSE
  /\ processedCache = <<>>
  /\ clock = 0
  /\ returned = NoCall

\* a context in which nothing has been created
GlInit == [next |-> 1, live |-> {}, deleted |-> {}, deletedTwice |-> {}]

\* the program keys followed handle by handle
ProgramKeys == {"brightness", "invert"}

\* new ShaderProgramManager(gl): no program cached.  compiles: for each key
\* the number of createProgram calls made since construction or the last
\* dispose; failed: the keys whose latest createProgram call returned null
ProgramManagerInit ==
  [programs |-> <<>>, compiles |-> [key \in ProgramKeys |-> 0], failed |-> {}]

\* the image urls followed handle by handle
TextureUrls == { <<"a">>, <<"a", "b">> }

\* new TextureCache(gl): no texture cached.  created: for each url the
\* number of textures created for it since construction, its last
\* removeTexture or the last dispose
TextureCacheInit ==
  [textures |-> <<>>, created |-> [url \in TextureUrls |-> 0]]

NoObject == [kind |-> "null", id |-> 0]

\* a null Framebuffer
NullFramebuffer ==
  [framebuffer |-> NoObject, texture |-> NoObject, width |-> 0, height |-> 0]

\* new PingPongBuffer(gl)
PingPongBufferInit ==
  [framebuffers |-> <<NullFramebuffer, NullFramebuffer>>, currentIndex |-> 0,
   width |-> 0, height |-> 0]

\* a QuadRenderer holding neither buffer nor vertex array
NoQuadRenderer == [buffer |-> NoObject, vao |-> NoObject]

NoGlCall == [op |-> "none", key |-> <<>>, value |-> NoObject, created |-> FALSE]

\* none of the handle-level components is in use
GlIdle ==
  /\ glObjects = GlInit
  /\ programManager = ProgramManagerInit
  /\ textureCache = TextureCacheInit
  /\ pingPongBuffer = PingPongBufferInit
  /\ quadRenderer = NoQuadRenderer
  /\ glReturn = NoGlCall

NoStoreCall ==
  [op |-> "none", imageId |-> 0, layerId |-> 0, value |-> 0, shaderType |-> ""]

\* a ref or a state holding null
Null == <<>>

\* no mouse event has been handled
NoMouseEvent ==
  [type |-> "none", button |-> 0, shiftKey |-> FALSE, handle |-> Null,
   image |-> Null, mode |-> "idle"]

\* the canvas as mounted: no interaction under way
InteractionIdle ==
  /\ interactionMode = "idle"
  /\ cursor = "default"
  /\ resizeOperationRef = Null
  /\ isResizingRef = FALSE
  /\ hoveredHandleRef = Null
  /\ dragOperationRef = Null
  /\ isDraggingRef = FALSE
  /\ isPanningRef = FALSE
  /\ lastPointerRef = Null
  /\ mouseEvent = NoMouseEvent

\* the store is not in use
StoreIdle ==
  /\ images = <<>>
  /\ generated = 0
  /\ storeReturn = NoStoreCall
  /\ selectedImageIds = <<>>
  /\ InteractionIdle

\* no pure function is under evaluation
PureIdle ==
  /\ arg = <<>>
  /\ ret = <<>>
  /\ phase = "idle"

\* no render call has run since the last other operation
NoRender ==
  [status |-> "none", layers |-> <<>>, activeLayers |-> <<>>,
   skipped |-> {}, passes |-> <<>>, pingPongCalls |-> <<>>]

(***************************************************************************)
(* ShaderCompositor.render.                                                *)
(***************************************************************************)
flipYInverted(i) == i # 0

\* gl.uniform1i(flipYLoc, i === 0 ? 1 : 0)
flipY(i) == i = 0

\* one executed pass: the binding, clear, uniform and draw commands
Pass(i, layer, isLastPass, framebuffer, texture, flip, q, w, h) ==
  [i |-> i, layer |-> layer.id, type |-> layer.type, isLastPass |-> isLastPass,
   framebuffer |-> framebuffer, texture |-> texture, flipY |-> flip,
   viewport |-> <<w, h>>, setup |-> setupForProgram(q),
   drawn |-> drawIssued(q), vertices |-> QuadVertexCount]

inputAfterSwapStale(st, pp) == st.inputTexture

\* inputTexture = this.pingPong.getReadTexture()
inputAfterSwap(st, pp) == getReadTexture(pp)

RECURSIVE renderLoop(_, _, _, _, _, _, _)
\* for (let i = 0; i < activeLayers.length; i++) { ... }
\* st: programs, pingPong, inputTexture and the commands issued so far
renderLoop(i, active, st, broken, q, w, h) ==
  IF i >= Len(active) THEN st
  ELSE
    LET layer == active[i + 1]
        isLastPass == (i = Len(active) - 1)
        got == getProgram(st.programs, layer.type, i \notin broken)
    IN  IF ~got.ok
        THEN renderLoop(i + 1, active, [st EXCEPT !.skipped = @ \cup {i}],
                        broken, q, w, h)
        ELSE
          LET framebuffer == IF isLastPass THEN NullHandle
                             ELSE getWriteFramebuffer(st.pingPong)
              pass == Pass(i, layer, isLastPass, framebuffer, st.inputTexture,
                           flipY(i), q, w, h)
              pp == IF isLastPass THEN st.pingPong ELSE swap(st.pingPong)
          IN  renderLoop(i + 1, active,
                [programs |-> got.programs,
                 pingPong |-> pp,
                 inputTexture |-> IF isLastPass THEN st.inputTexture
                                  ELSE inputAfterSwap(st, pp),
                 passes |-> Append(st.passes, pass),
                 skipped |-> st.skipped,
                 pingPongCalls |-> st.pingPongCalls \o
                    (IF isLastPass THEN <<>>
                     ELSE <<"getWriteFramebuffer", "swap", "getReadTexture">>)],
                broken, q, w, h)

PassthroughLayer == [id |-> "", type |-> "passthrough"]

\* renderPassthrough drawing through the ping-pong pair
renderPassthroughViaPingPong(c, layers, texture, broken) ==
  LET got == getProgram(c.programs, "passthrough", 0 \notin broken)
  IN  [c EXCEPT
         !.programs = got.programs,
         !.pingPong = swap(c.pingPong),
         !.last = [status |-> "passthrough", layers |-> layers,
                   activeLayers |-> <<>>,
                   skipped |-> IF got.ok THEN {} ELSE {0},
                   passes |-> IF got.ok
                              THEN <<Pass(0, PassthroughLayer, TRUE,
                                          getWriteFramebuffer(c.pingPong),
                                          texture, TRUE, c.quad,
                                          c.width, c.height)>>
                              ELSE <<>>,
                   pingPongCalls |-> <<"getWriteFramebuffer", "swap">>]]

\* ShaderCompositor.renderPassthrough: the result of render on that path
renderPassthrough(c, layers, texture, broken) ==
  LET got == getProgram(c.programs, "passthrough", 0 \notin broken)
  IN  [c EXCEPT
         !.programs = got.programs,
         !.last = [status |-> "passthrough", layers |-> layers,
                   activeLayers |-> <<>>,
                   skipped |-> IF got.ok THEN {} ELSE {0},
                   passes |-> IF got.ok
                              THEN <<Pass(0, PassthroughLayer, TRUE, NullHandle,
                                          texture, TRUE, c.quad,
                                          c.width, c.height)>>
                              ELSE <<>>,
                   pingPongCalls |-> <<>>]]

\* ShaderCompositor.render(image, layers); c is the compositor's state.
\* created: outcome of createTextureFromImage; broken: the pass indices at
\* which createProgram, if called, fails to compile or link; o0, o1: outcomes of the two createFramebuffer
\* calls of PingPongBuffer.resize
render(c, url, layers, created, broken, o0, o1) ==
  LET tex == getTexture(c.textures, url, created)
      activeLayers == activeLayersOf(layers)
  IN  IF tex.texture = NullHandle
      THEN [c EXCEPT !.last = [NoRender EXCEPT !.status = "noTexture",
                                               !.layers = layers]]
      ELSE IF Len(activeLayers) = 0
      THEN renderPassthrough([c EXCEPT !.textures = tex.textures],
                             layers, tex.texture, broken)
      ELSE
        LET pp == reset(PingPongResize(c.pingPong, c.width, c.height, o0, o1))
            st == renderLoop(0, activeLayers,
                    [programs |-> c.programs, pingPong |-> pp,
                     inputTexture |-> tex.texture, passes |-> <<>>,
                     skipped |-> {}, pingPongCalls |-> <<"resize", "reset">>],
                    broken, c.quad, c.width, c.height)
        IN  [c EXCEPT
               !.textures = tex.textures,
               !.programs = st.programs,
               !.pingPong = st.pingPong,
               !.last = [status |-> "composite", layers |-> layers,
                         activeLayers |-> activeLayers,
                         skipped |-> st.skipped, passes |-> st.passes,
                         pingPongCalls |-> st.pingPongCalls]]

\* ShaderCompositor.resize
compositorResize(c, w, h, o0, o1) ==
  IF c.width = w /\ c.height = h THEN c
  ELSE [c EXCEPT !.width = w, !.height = h,
                 !.pingPong = PingPongResize(c.pingPong, w, h, o0, o1)]

\* ShaderCompositor.dispose
compositorDispose(c) ==
  [c EXCEPT !.programs = {}, !.textures = {},
            !.pingPong = PingPongDispose(c.pingPong),
            !.quad = QuadDispose]

\* the compositor object assembled from the state variables
Compositor ==
  [width |-> width, height |-> height, pingPong |-> pingPong,
   programs |-> programs, textures |-> textures, quad |-> quad, last |-> last]

SetCompositor(c) ==
  /\ width' = c.width
  /\ height' = c.height
  /\ pingPong' = c.pingPong
  /\ programs' = c.programs
  /\ textures' = c.textures
  /\ quad' = c.quad
  /\ last' = c.last

(***************************************************************************)
(* Inputs of the compositor specification.                                 *)
(***************************************************************************)
\* image.src of the image handed to render
RenderUrl == <<"a">>

Widths == 1..MaxWidth
Heights == 1..MaxHeight

\* layer ids by position in the list (ids are unique within an image)
LayerId(p) == <<"l", ToString(p)>>

\* The layer at list position p: a brightness layer at odd positions, an
\* invert layer at even ones.  A layer that is on is enabled with a
\* non-default value.  A brightness layer that is off is the layer
\* createShaderLayer makes (enabled, default properties: no effect); an
\* invert layer that is off has a non-default amount and enabled = false.
RenderLayer(p, on, order) ==
  IF p % 2 = 1
  THEN [createShaderLayer("brightness", LayerId(p), order) EXCEPT
          !.properties.value = IF on THEN 20 ELSE 0]
  ELSE [createShaderLayer("invert", LayerId(p), order) EXCEPT
          !.properties.amount = 100, !.enabled = on]

\* layer lists of up to MaxLayers layers, arriving in descending order of
\* their order field, each layer on or off
RenderInputs ==
  UNION { { [p \in 1..n |-> RenderLayer(p, on[p], n - p)] : on \in [1..n -> BOOLEAN] }
          : n \in 0..MaxLayers }

\* pass indices at which a render of the given layers may call
\* createProgram: those whose program key is not cached
CompilingPasses(layers) ==
  LET active == activeLayersOf(layers)
  IN  IF Len(active) = 0
      THEN IF "passthrough" \in programs THEN {} ELSE {0}
      ELSE {i \in 0..(Len(active) - 1) : active[i + 1].type \notin programs}

\* outcomes of the creation calls a call can reach in the current state; a
\* call that is not reached has the single outcome of success
TextureOutcomes(url) == IF url \in textures THEN {TRUE} ELSE BOOLEAN
BrokenSets(layers) == SUBSET CompilingPasses(layers)
ResizeOutcomes(w, h) ==
  IF pingPong.width = w /\ pingPong.height = h THEN {"ok"} ELSE FramebufferOutcomes

(***************************************************************************)
(* Spec: the compositor under resize, render and dispose.                  *)
(***************************************************************************)
Init ==
  /\ width = 0
  /\ height = 0
  /\ pingPong = PingPongInit
  /\ programs = {}
  /\ textures = {}
  /\ \E bufferOk \in BOOLEAN, vaoOk \in BOOLEAN : quad = QuadInit(bufferOk, vaoOk)
  /\ last = NoRender
  /\ HookUnmounted
  /\ GlIdle
  /\ StoreIdle
  /\ PureIdle

Resize ==
  /\ \E w \in Widths, h \in Heights :
       \E o0 \in ResizeOutcomes(w, h), o1 \in ResizeOutcomes(w, h) :
         SetCompositor([compositorResize(Compositor, w, h, o0, o1) EXCEPT !.last = NoRender])
  /\ UNCHANGED <<hookVars, pureVars, glVars, storeVars>>

Render ==
  /\ \E layers \in RenderInputs, created \in TextureOutcomes(RenderUrl) :
       \E broken \in BrokenSets(layers) :
         \E o0 \in ResizeOutcomes(width, height), o1 \in ResizeOutcomes(width, height) :
           SetCompositor(render(Compositor, RenderUrl, layers, created, broken, o0, o1))
  /\ UNCHANGED <<hookVars, pureVars, glVars, storeVars>>

Dispose ==
  /\ SetCompositor([compositorDispose(Compositor) EXCEPT !.last = NoRender])
  /\ UNCHANGED <<hookVars, pureVars, glVars, storeVars>>

Next == Resize \/ Render \/ Dispose

Spec == Init /\ [][Next]_vars

(***************************************************************************)
(* Properties of the pass sequence of render (checked under Spec).         *)
(***************************************************************************)
\* positions of the input list of the latest render that hasEffect keeps
ActivePositions == {p \in 1..Len(last.layers) : hasEffect(last.layers[p])}

\* the latest call was a render that reached the pass loop
Composite == last.status = "composite"

\* number of draw calls the latest render issued
DrawCount == Cardinality({k \in 1..Len(last.passes) : last.passes[k].drawn})

\* position in the active list (0-based pass index) of executed pass k
PassIndex(k) ==
  CHOOSE j \in 0..(Len(last.activeLayers) - 1) :
    last.activeLayers[j + 1].id = last.passes[k].layer

\* C1: a composite of n >= 1 active layers whose programs are all
\* available issues exactly n draws in ascending layer order; pass 0
\* samples the image texture, pass i > 0 samples the texture of the
\* ping-pong framebuffer pass i-1 rendered into, every pass before the last
\* renders into a ping-pong framebuffer and the last pass renders into the
\* destination (null framebuffer).
C1_PassProtocol ==
  (Composite /\ last.skipped = {}) =>
    LET n == Cardinality(ActivePositions)
        P == last.passes
    IN  /\ n >= 1
        /\ Len(P) = n
        /\ DrawCount = n
        /\ \A k \in 1..Len(P) :
             /\ P[k].layer = last.activeLayers[k].id
             /\ k < Len(P) => last.activeLayers[k].order <= last.activeLayers[k + 1].order
             /\ k = 1 => P[k].texture = ImageTexture(RenderUrl)
             /\ k > 1 => /\ P[k - 1].framebuffer.kind = "framebuffer"
                         /\ P[k].texture = FramebufferTexture(P[k - 1].framebuffer.index)
             /\ k < n => P[k].framebuffer.kind = "framebuffer"
             /\ k = n => P[k].framebuffer = NullHandle

\* the failure of C1 does not come from the pass logic: with both
\* framebuffers and the vertex array present the protocol is followed
C1_WithResources ==
  (Composite /\ last.skipped = {} /\ quad.vao /\ quad.buffer
     /\ pingPong.framebuffers[0].exists /\ pingPong.framebuffers[1].exists)
  => C1_PassProtocol

\* C2: in every composite the pass at index 0 of the active list sets
\* u_flipY to true and every pass at an index > 0 sets it to false.
C2_FlipOnlyFirstPass ==
  Composite =>
    \A k \in 1..Len(last.passes) : last.passes[k].flipY <=> (PassIndex(k) = 0)

\* a composite that executed pass 0 and a later pass
C2_Witness ==
  /\ Composite
  /\ \E k \in 1..Len(last.passes) : PassIndex(k) = 0 /\ last.passes[k].flipY
  /\ \E k \in 1..Len(last.passes) : PassIndex(k) > 0 /\ ~last.passes[k].flipY

\* C5: the read index and the write index of the PingPongBuffer are the
\* two distinct members of {0, 1}, and no pass of any composite (also one
\* with failed programs) samples the texture attached to the framebuffer it
\* renders into.
C5_NoFeedback ==
  /\ {pingPong.currentIndex, writeIndex(pingPong)} = {0, 1}
  /\ \A k \in 1..Len(last.passes) :
       ~ /\ last.passes[k].framebuffer.kind = "framebuffer"
         /\ last.passes[k].texture =
              FramebufferTexture(last.passes[k].framebuffer.index)

\* a composite with a failed program in which one pass renders into a
\* ping-pong framebuffer and a later pass samples that framebuffer's texture
C5_Witness ==
  /\ Composite /\ last.skipped # {}
  /\ \E k \in 2..Len(last.passes) :
       /\ last.passes[k - 1].framebuffer.kind = "framebuffer"
       /\ last.passes[k].texture =
            FramebufferTexture(last.passes[k - 1].framebuffer.index)

\* C6: when the program of exactly one active layer is unavailable, every
\* other active layer still executes, each pass samples the output of the
\* nearest preceding executed pass (the image texture for the first), and
\* the destination receives the result: the final executed pass renders
\* into the null framebuffer.  Stated for composites of two or more active
\* layers whose framebuffers and vertex array exist.
C6_OneFailureTolerated ==
  (Composite /\ Cardinality(last.skipped) = 1 /\ quad.vao /\ quad.buffer
     /\ Len(last.activeLayers) >= 2
     /\ pingPong.framebuffers[0].exists /\ pingPong.framebuffers[1].exists)
  => LET P == last.passes
         n == Len(last.activeLayers)
     IN  /\ Len(P) = n - 1
         /\ DrawCount = n - 1
         /\ \A k \in 1..Len(P) :
              /\ PassIndex(k) \notin last.skipped
              /\ k > 1 => PassIndex(k - 1) < PassIndex(k)
              /\ k = 1 => P[k].texture = ImageTexture(RenderUrl)
              /\ k > 1 => /\ P[k - 1].framebuffer.kind = "framebuffer"
                          /\ P[k].texture = FramebufferTexture(P[k - 1].framebuffer.index)
         /\ \E k \in 1..Len(P) : k = Len(P) /\ P[k].framebuffer = NullHandle

\* the one failure that C6 does not survive is that of the last layer:
\* when the failed program belongs to an earlier layer the claim holds
C6_FailureBeforeLast ==
  last.skipped # {Len(last.activeLayers) - 1} => C6_OneFailureTolerated

\* the latest call was a render whose layer list has no active layer
EmptyActive == last.status # "none" /\ ActivePositions = {}

\* C7 as claimed: with an empty active list render issues exactly one draw
\* of the image texture to the destination and makes no ping-pong call.
C7_ExactlyOneDraw ==
  EmptyActive =>
    /\ DrawCount = 1
    /\ \A k \in 1..Len(last.passes) :
         /\ last.passes[k].texture = ImageTexture(RenderUrl)
         /\ last.passes[k].framebuffer = NullHandle
    /\ last.pingPongCalls = <<>>

\* C7 amended: with an empty active list render issues at most one draw,
\* and exactly one when the image texture and the passthrough program are
\* available and the vertex array exists; the pass samples the image
\* texture with u_flipY set and renders into the destination; render makes
\* no ping-pong call and leaves the PingPongBuffer as it was.
C7_PassthroughOnly ==
  /\ [](EmptyActive =>
          /\ last.pingPongCalls = <<>>
          /\ Len(last.passes) <= 1
          /\ \A k \in 1..Len(last.passes) :
               /\ last.passes[k].texture = ImageTexture(RenderUrl)
               /\ last.passes[k].framebuffer = NullHandle
               /\ last.passes[k].flipY
          /\ (last.status = "passthrough" /\ last.skipped = {} /\ quad.vao)
               => DrawCount = 1
          /\ (last.status = "noTexture" \/ last.skipped # {} \/ ~quad.vao)
               => DrawCount = 0)
  /\ [][EmptyActive' => pingPong' = pingPong]_compositorVars

\* a passthrough render of a list holding a disabled layer and an enabled
\* layer without effect, after an earlier composite left the ping-pong
\* index at 1
C7_Witness ==
  /\ last.status = "passthrough"
  /\ DrawCount = 1
  /\ \E p \in 1..Len(last.layers) : ~last.layers[p].enabled
  /\ \E p \in 1..Len(last.layers) :
       last.layers[p].enabled /\ ~hasEffect(last.layers[p])
  /\ pingPong.currentIndex = 1


(***************************************************************************)
(* SortSpec: the active-layer list of render as a function of the layer    *)
(* list it is given.                                                       *)
(***************************************************************************)
\* order values of the input layers: ties and negative values included
SortOrders == {-1, 0, 1}

\* the layer at list position p: "active" is enabled with an effect,
\* "neutral" is enabled with default properties, "disabled" has an effect
\* but enabled = false
SortLayer(p, kind, order) ==
  CASE kind = "active" ->
         [createShaderLayer("brightness", LayerId(p), order) EXCEPT
            !.properties.value = 20]
    [] kind = "neutral" -> createShaderLayer("saturation", LayerId(p), order)
    [] kind = "disabled" ->
         [createShaderLayer("invert", LayerId(p), order) EXCEPT
            !.properties.amount = 100, !.enabled = FALSE]

SortKinds == {"active", "neutral", "disabled"}

\* every layer list of up to MaxLayers layers, in any arrival order
SortInputs ==
  UNION { { [p \in 1..n |-> SortLayer(p, kind[p], order[p])] :
              kind \in [1..n -> SortKinds], order \in [1..n -> SortOrders] }
          : n \in 0..MaxLayers }

SortInit ==
  /\ arg \in SortInputs
  /\ ret = <<>>
  /\ phase = "layers"
  /\ width = 0
  /\ height = 0
  /\ pingPong = PingPongInit
  /\ programs = {}
  /\ textures = {}
  /\ quad = QuadInit(TRUE, TRUE)
  /\ last = NoRender
  /\ HookUnmounted
  /\ GlIdle
  /\ StoreIdle

\* const activeLayers = layers.filter(hasEffect).sort(...)
SelectActive ==
  /\ phase = "layers"
  /\ ret' = activeIndices(arg)
  /\ phase' = "activeLayers"
  /\ UNCHANGED <<arg, compositorVars, hookVars, glVars, storeVars>>

SortNext == SelectActive

SortSpec == SortInit /\ [][SortNext]_vars

\* C3: the pass list is exactly the layers that are enabled and have an
\* effect (none omitted, no other included, none twice), in ascending
\* order of their order field, and layers of equal order keep their
\* relative position in the input list.
C3_ActiveLayersSorted ==
  phase = "activeLayers" =>
    /\ {ret[k] : k \in 1..Len(ret)} =
         {p \in 1..Len(arg) : arg[p].enabled /\ hasEffect(arg[p])}
    /\ \A k \in 1..Len(ret), l \in 1..Len(ret) :
         k < l =>
           \/ arg[ret[k]].order < arg[ret[l]].order
           \/ arg[ret[k]].order = arg[ret[l]].order /\ ret[k] < ret[l]

\* a list with two active layers of equal order and an active layer that
\* arrives before one of lower order
C3_Witness ==
  /\ phase = "activeLayers"
  /\ \E k \in 1..Len(ret), l \in 1..Len(ret) :
       k < l /\ arg[ret[k]].order = arg[ret[l]].order
  /\ \E k \in 1..Len(ret), l \in 1..Len(ret) : k < l /\ ret[k] > ret[l]

(***************************************************************************)
(* DefaultsSpec: createShaderLayer followed by the hasEffect filter.       *)
(***************************************************************************)
\* the two declarations of SHADER_DEFAULTS / createShaderLayer
DefaultTables == {"types/shader.ts", "part_000"}

TypesOf(table) == IF table = "types/shader.ts" THEN CoreShaderTypes ELSE ShaderTypes

DefaultsInit ==
  /\ \E table \in DefaultTables :
       \E type \in TypesOf(table), order \in 0..MaxLayers :
         arg = [table |-> table, type |-> type, id |-> LayerId(order + 1),
                order |-> order]
  /\ ret = <<>>
  /\ phase = "type"
  /\ width = 0
  /\ height = 0
  /\ pingPong = PingPongInit
  /\ programs = {}
  /\ textures = {}
  /\ quad = QuadInit(TRUE, TRUE)
  /\ last = NoRender
  /\ HookUnmounted
  /\ GlIdle
  /\ StoreIdle

\* createShaderLayer(type, id, order), then render's filter on the list
\* holding that layer alone
CreateDefault ==
  /\ phase = "type"
  /\ LET layer == IF arg.table = "types/shader.ts"
                  THEN createCoreShaderLayer(arg.type, arg.id, arg.order)
                  ELSE createShaderLayer(arg.type, arg.id, arg.order)
     IN  ret' = [layer |-> layer, active |-> activeIndices(<<layer>>)]
  /\ phase' = "layer"
  /\ UNCHANGED <<arg, compositorVars, hookVars, glVars, storeVars>>

DefaultsNext == CreateDefault

DefaultsSpec == DefaultsInit /\ [][DefaultsNext]_vars

\* C4: for every effect type, the layer createShaderLayer produces (enabled,
\* properties equal to the declared defaults) is not in the active-pass list.
C4_DefaultLayerExcluded ==
  phase = "layer" => ret.active = <<>>

\* the types whose default layer the filter excludes
NeutralDefaultTypes(table) ==
  IF table = "types/shader.ts"
  THEN CoreShaderTypes \ {"contrast"}
  ELSE { "brightness", "contrast", "blur", "saturation", "hue-rotate", "invert",
         "exposure", "color-correction" }

\* what holds instead of C4: the default layer is excluded exactly for the
\* types of NeutralDefaultTypes
C4_ExcludedTypes ==
  phase = "layer" =>
    (ret.active = <<>> <=> arg.type \in NeutralDefaultTypes(arg.table))


(***************************************************************************)
(* useShaderRenderer: fingerprints (getCacheKey).                          *)
(* Strings that are taken apart are sequences of their pieces.             *)
(***************************************************************************)
RECURSIVE Join(_, _)
\* Array.prototype.join
Join(parts, sep) ==
  IF parts = <<>> THEN <<>>
  ELSE IF Len(parts) = 1 THEN parts[1]
  ELSE parts[1] \o sep \o Join(Tail(parts), sep)

\* String.prototype.startsWith
startsWith(str, prefix) ==
  Len(prefix) <= Len(str) /\ SubSeq(str, 1, Len(prefix)) = prefix

\* JSON text of a number (here of its hundredths), a string, a number array
NumberText(v) == <<ToString(v)>>
StringText(str) == <<"\"", str, "\"">>
ArrayText(a) ==
  <<"[">> \o Join([k \in 1..Len(a) |-> NumberText(a[k])], <<",">>) \o <<"]">>

Field(name, text) == [name |-> name, text |-> text]

\* the own properties of layer.properties in creation order (the order of
\* the type's entry in SHADER_DEFAULTS), each with the JSON text of its value
propertyEntries(layer) ==
  LET p == layer.properties
      t == layer.type
  IN  CASE t \in {"brightness", "contrast", "saturation", "exposure", "threshold"} ->
             <<Field("value", NumberText(p.value))>>
        [] t = "blur" ->
             <<Field("radius", NumberText(p.radius)),
               Field("quality", NumberText(p.quality))>>
        [] t = "hue-rotate" -> <<Field("degrees", NumberText(p.degrees))>>
        [] t = "invert" -> <<Field("amount", NumberText(p.amount))>>
        [] t = "color-correction" ->
             <<Field("brightness", NumberText(p.brightness)),
               Field("contrast", NumberText(p.contrast)),
               Field("exposure", NumberText(p.exposure)),
               Field("saturation", NumberText(p.saturation))>>
        [] t = "blend-mode" ->
             <<Field("mode", StringText(p.mode)),
               Field("color", ArrayText(p.color)),
               Field("opacity", NumberText(p.opacity))>>
        [] t = "film-grain" ->
             <<Field("intensity", NumberText(p.intensity)),
               Field("size", NumberText(p.size))>>
        [] t = "duotone" ->
             <<Field("shadowColor", ArrayText(p.shadowColor)),
               Field("highlightColor", ArrayText(p.highlightColor))>>
        [] t = "pixelate" -> <<Field("size", NumberText(p.size))>>
        [] t = "dither" -> <<Field("scale", NumberText(p.scale))>>
        [] t = "vignette" ->
             <<Field("size", NumberText(p.size)),
               Field("roundness", NumberText(p.roundness)),
               Field("smoothness", NumberText(p.smoothness))>>
        [] t = "chromatic-aberration" -> <<Field("offset", NumberText(p.offset))>>
        [] t = "lut" ->
             <<Field("lutUrl", StringText(p.lutUrl)),
               Field("intensity", NumberText(p.intensity))>>
        [] t = "halation" ->
             <<Field("threshold", NumberText(p.threshold)),
               Field("intensity", NumberText(p.intensity)),
               Field("spread", NumberText(p.spread)),
               Field("tint", ArrayText(p.tint))>>
        [] t = "bloom" ->
             <<Field("threshold", NumberText(p.threshold)),
               Field("intensity", NumberText(p.intensity)),
               Field("radius", NumberText(p.radius)),
               Field("exposure", NumberText(p.exposure))>>

\* JSON.stringify(l.properties)
JSONStringify(layer) ==
  LET entries == propertyEntries(layer)
  IN  <<"{">>
      \o Join([k \in 1..Len(entries) |->
                 StringText(entries[k].name) \o <<":">> \o entries[k].text],
              <<",">>)
      \o <<"}">>

\* no filter at all
unfilteredLayers(layers) == layers

\* layers.filter((l) => l.enabled)
enabledLayers(layers) == SelectSeq(layers, LAMBDA l : l.enabled)

\* getCacheKey(imageUrl, layers)
getCacheKey(imageUrl, layers) ==
  LET active == enabledLayers(layers)
      layerHash == Join([k \in 1..Len(active) |->
                           active[k].id \o <<":">> \o JSONStringify(active[k])],
                        <<"|">>)
  IN  imageUrl \o <<":", ":">> \o layerHash

(***************************************************************************)
(* useShaderRenderer: the processed-image cache, a Map.                    *)
(***************************************************************************)
\* if (processedCacheRef.current.size > 50)
CacheLimit == 50

\* Map.prototype.has / get / set / delete on the entries in insertion order
MapHas(map, key) == \E k \in 1..Len(map) : map[k].key = key
MapGet(map, key) == map[CHOOSE k \in 1..Len(map) : map[k].key = key]
MapSet(map, entry) ==
  IF MapHas(map, entry.key)
  THEN [k \in 1..Len(map) |-> IF map[k].key = entry.key THEN entry ELSE map[k]]
  ELSE Append(map, entry)
MapDelete(map, key) == SelectSeq(map, LAMBDA e : e.key # key)

\* the key eviction picks
LastKey(map) == map[Len(map)].key
\* processedCacheRef.current.keys().next().value
FirstKey(map) == map[1].key

\* the hook's refs together with the compositor they own
Hook ==
  [compositorRef |-> compositorRef, processedCache |-> processedCache,
   clock |-> clock, returned |-> returned, compositor |-> Compositor]

SetHook(h) ==
  /\ compositorRef' = h.compositorRef
  /\ processedCache' = h.processedCache
  /\ clock' = h.clock
  /\ returned' = h.returned
  /\ SetCompositor(h.compositor)

\* new ShaderCompositor(gl)
NewCompositor(bufferOk, vaoOk) ==
  [width |-> 0, height |-> 0, pingPong |-> PingPongInit, programs |-> {},
   textures |-> {}, quad |-> QuadInit(bufferOk, vaoOk), last |-> NoRender]

\* processImage rendering at the compositor's previous size
processImageUnsized(h, image, layers, w, ht, gl) ==
  IF ~h.compositorRef \/ ~image.complete
  THEN [compositor |-> h.compositor, canvas |-> FALSE]
  ELSE IF Len(enabledLayers(layers)) = 0
  THEN [compositor |-> h.compositor, canvas |-> FALSE]
  ELSE [compositor |->
          render(h.compositor, image.src, enabledLayers(layers),
                 gl.created, gl.broken, gl.o0, gl.o1),
        canvas |-> TRUE]

\* processImage(image, layers, width, height); gl holds the outcomes of the
\* creation calls of the composite.  canvas: an output canvas is returned
processImage(h, image, layers, w, ht, gl) ==
  IF ~h.compositorRef \/ ~image.complete
  THEN [compositor |-> h.compositor, canvas |-> FALSE]
  ELSE IF Len(enabledLayers(layers)) = 0
  THEN [compositor |-> h.compositor, canvas |-> FALSE]
  ELSE [compositor |->
          render(compositorResize(h.compositor, w, ht, gl.o0, gl.o1),
                 image.src, enabledLayers(layers),
                 gl.created, gl.broken, gl.o0, gl.o1),
        canvas |-> TRUE]

Call(op, result, key, url, w, ht) ==
  [op |-> op, result |-> result, key |-> key, url |-> url,
   width |-> w, height |-> ht]

\* getProcessedImage(image, layers, width, height)
getProcessedImage(h, image, layers, w, ht, gl) ==
  LET cacheKey == getCacheKey(image.src, layers)
      call(result, key) ==
        [op |-> "getProcessedImage", result |-> result, key |-> key,
         url |-> image.src, width |-> w, height |-> ht,
         complete |-> image.complete]
  IN  IF Len(enabledLayers(layers)) = 0
      THEN [h EXCEPT !.returned = call("image", <<>>)]
      ELSE IF /\ MapHas(h.processedCache, cacheKey)
              /\ MapGet(h.processedCache, cacheKey).width = w
              /\ MapGet(h.processedCache, cacheKey).height = ht
      THEN [h EXCEPT !.returned = call("cached", cacheKey)]
      ELSE
        LET processed == processImage(h, image, layers, w, ht, gl)
            kept == IF Len(h.processedCache) > CacheLimit
                    THEN MapDelete(h.processedCache, FirstKey(h.processedCache))
                    ELSE h.processedCache
            isNew == ~MapHas(kept, cacheKey)
            entry == [key |-> cacheKey, width |-> w, height |-> ht,
                      source |-> image.src,
                      insertedAt |-> IF isNew THEN h.clock + 1
                                     ELSE MapGet(kept, cacheKey).insertedAt]
        IN  IF ~processed.canvas
            THEN [h EXCEPT !.returned = call("image", cacheKey)]
            ELSE [h EXCEPT !.compositor = processed.compositor,
                           !.processedCache = MapSet(kept, entry),
                           !.clock = IF isNew THEN h.clock + 1 ELSE h.clock,
                           !.returned = call("processed", cacheKey)]

\* clearCache()
clearCache(h) ==
  [h EXCEPT !.processedCache = <<>>,
            !.returned = Call("clearCache", "none", <<>>, <<>>, 0, 0)]

\* invalidateCache(imageUrl)
invalidateCache(h, imageUrl) ==
  [h EXCEPT !.processedCache =
              SelectSeq(h.processedCache, LAMBDA e : ~startsWith(e.key, imageUrl)),
            !.returned = Call("invalidateCache", "none", <<>>, imageUrl, 0, 0)]

\* the effect of useShaderRenderer: context and compositor creation
mount(h, glOk) ==
  IF glOk
  THEN [h EXCEPT !.compositorRef = TRUE,
                 !.compositor = NewCompositor(TRUE, TRUE),
                 !.returned = Call("mount", "ready", <<>>, <<>>, 0, 0)]
  ELSE [h EXCEPT !.returned = Call("mount", "noContext", <<>>, <<>>, 0, 0)]

\* the cleanup of that effect
unmount(h) ==
  [h EXCEPT !.compositorRef = FALSE,
            !.compositor = [compositorDispose(h.compositor) EXCEPT !.last = NoRender],
            !.processedCache = <<>>,
            !.returned = Call("unmount", "none", <<>>, <<>>, 0, 0)]

\* every creation call of a composite succeeds
GlSuccess == [created |-> TRUE, broken |-> {}, o0 |-> "ok", o1 |-> "ok"]

\* a getProcessedImage call with one of the given inputs, as long as fewer
\* than cap keys have been inserted
Request(inputs, cap) ==
  /\ clock < cap
  /\ \E input \in inputs :
       SetHook(getProcessedImage(Hook, input.image, input.layers, input.width, input.height,
                                 GlSuccess))
  /\ UNCHANGED <<pureVars, glVars, storeVars>>

HookInit ==
  /\ width = 0
  /\ height = 0
  /\ pingPong = PingPongInit
  /\ programs = {}
  /\ textures = {}
  /\ quad = QuadInit(TRUE, TRUE)
  /\ last = NoRender
  /\ HookUnmounted
  /\ GlIdle
  /\ StoreIdle
  /\ PureIdle

(***************************************************************************)
(* CacheSpec: the hook under mount, unmount, getProcessedImage, clearCache *)
(* and invalidateCache, for two images whose urls are prefix-related.      *)
(***************************************************************************)
\* key insertions per behaviour
MaxPuts == 3

CacheUrls == { <<"a">>, <<"a", "b">> }

CacheImages == { [src |-> url, complete |-> c] : url \in CacheUrls, c \in BOOLEAN }

\* a brightness layer alone, a brightness and an invert layer, and a
\* disabled layer alone
CacheLayerLists ==
  { <<RenderLayer(1, TRUE, 0)>>,
    <<RenderLayer(1, TRUE, 0), RenderLayer(2, TRUE, 1)>>,
    <<RenderLayer(1, TRUE, 0), RenderLayer(2, FALSE, 1)>>,
    <<RenderLayer(2, FALSE, 0)>> }

CacheInputs ==
  { [image |-> image, layers |-> layers, width |-> w, height |-> ht] :
      image \in CacheImages, layers \in CacheLayerLists,
      w \in Widths, ht \in Heights }

Mount ==
  /\ ~compositorRef
  /\ \E glOk \in BOOLEAN : SetHook(mount(Hook, glOk))
  /\ UNCHANGED <<pureVars, glVars, storeVars>>

Unmount ==
  /\ compositorRef
  /\ SetHook(unmount(Hook))
  /\ UNCHANGED <<pureVars, glVars, storeVars>>

GetProcessedImage == Request(CacheInputs, MaxPuts)

ClearCache ==
  /\ SetHook(clearCache(Hook))
  /\ UNCHANGED <<pureVars, glVars, storeVars>>

InvalidateCache ==
  /\ \E imageUrl \in CacheUrls : SetHook(invalidateCache(Hook, imageUrl))
  /\ UNCHANGED <<pureVars, glVars, storeVars>>

CacheNext ==
  Mount \/ Unmount \/ GetProcessedImage \/ ClearCache \/ InvalidateCache

CacheSpec == HookInit /\ [][CacheNext]_vars

\* C10: invalidateCache(sourceId) removes every entry made from the image
\* sourceId and leaves every entry made from another image in place, also
\* when one url is a prefix of the other.
C10_InvalidateOnlySource ==
  [][returned'.op = "invalidateCache" =>
       LET imageUrl == returned'.url
       IN  processedCache' =
             SelectSeq(processedCache, LAMBDA e : e.source # imageUrl)]_vars

\* what invalidateCache does remove: every entry of the image, and none of
\* an image whose url does not start with imageUrl
C10_InvalidateByPrefix ==
  [][returned'.op = "invalidateCache" =>
       LET imageUrl == returned'.url
       IN  processedCache' =
             SelectSeq(processedCache,
                       LAMBDA e : ~startsWith(e.source, imageUrl))]_vars

(***************************************************************************)
(* FillSpec: the mounted hook under getProcessedImage calls that fill the  *)
(* cache beyond its limit: each call asks for a fingerprint never asked    *)
(* for before or for one of the first few again.                           *)
(***************************************************************************)
\* key insertions per behaviour
MaxFill == 53

\* the fingerprints that are asked for again
MaxRevisited == 2

FillImage == [src |-> <<"a">>, complete |-> TRUE]

\* one brightness layer; its value makes the fingerprint
FillLayers(v) ==
  <<[createShaderLayer("brightness", LayerId(1), 0) EXCEPT !.properties.value = v]>>

\* the next new fingerprint at width 1, the revisited ones at any width
FillInputs ==
  { [image |-> FillImage, layers |-> FillLayers(clock + 1), width |-> 1,
     height |-> 1] }
  \cup { [image |-> FillImage, layers |-> FillLayers(v), width |-> w,
          height |-> 1] : v \in 1..MaxRevisited, w \in Widths }

FillInit ==
  /\ width = 0
  /\ height = 0
  /\ pingPong = PingPongInit
  /\ programs = {}
  /\ textures = {}
  /\ quad = QuadInit(TRUE, TRUE)
  /\ last = NoRender
  /\ compositorRef = TRUE
  /\ processedCache = <<>>
  /\ clock = 0
  /\ returned = Call("mount", "ready", <<>>, <<>>, 0, 0)
  /\ PureIdle
  /\ GlIdle
  /\ StoreIdle

FillRequest == Request(FillInputs, MaxFill)

FillNext == FillRequest

FillSpec == FillInit /\ [][FillNext]_vars

\* C8: the cache never holds more than 50 entries.
C8_AtMostFiftyEntries == Len(processedCache) <= CacheLimit

\* the bound the code keeps: one more than the limit
C8_AtMostFiftyOne == Len(processedCache) <= CacheLimit + 1

\* C9: a getProcessedImage call removes at most one entry, the removed
\* entry is the one whose key was inserted earliest among those present,
\* the entries stay in the order their keys were inserted, and a call
\* answered from the cache leaves the cache as it was.
C9_FifoEviction ==
  [][returned'.op = "getProcessedImage" =>
       LET gone == {k \in 1..Len(processedCache) :
                      \A j \in 1..Len(processedCache') :
                        processedCache'[j].insertedAt # processedCache[k].insertedAt}
       IN  /\ Cardinality(gone) <= 1
           /\ \A k \in gone : \A j \in 1..Len(processedCache) :
                processedCache[k].insertedAt <= processedCache[j].insertedAt
           /\ \A j \in 1..Len(processedCache'), k \in 1..Len(processedCache') :
                j < k => processedCache'[j].insertedAt < processedCache'[k].insertedAt
           /\ returned'.result = "cached" => processedCache' = processedCache]_vars

\* a call answered from a full cache from which the first key has
\* been evicted
C9_Witness ==
  /\ returned.result = "cached"
  /\ Len(processedCache) = CacheLimit + 1
  /\ processedCache[1].insertedAt > 1


(***************************************************************************)
(* KeySpec: getCacheKey applied to two layer lists of the same image.      *)
(***************************************************************************)
\* layers per list
MaxKeyLayers == 2

\* a brightness layer with one of two ids and one of two values, enabled
\* or not
KeyLayers ==
  { [createShaderLayer("brightness", LayerId(p), 0) EXCEPT
       !.properties.value = v, !.enabled = on] :
      p \in 1..2, v \in {20, 30}, on \in BOOLEAN }

KeyLists == UNION { [1..n -> KeyLayers] : n \in 0..MaxKeyLayers }

\* everything but the pure-function variables, as before any operation
RestIdle ==
  /\ width = 0
  /\ height = 0
  /\ pingPong = PingPongInit
  /\ programs = {}
  /\ textures = {}
  /\ quad = QuadInit(TRUE, TRUE)
  /\ last = NoRender
  /\ HookUnmounted
  /\ GlIdle

KeyInit ==
  /\ \E url \in CacheUrls, a \in KeyLists, b \in KeyLists :
       arg = [url |-> url, a |-> a, b |-> b]
  /\ ret = <<>>
  /\ phase = "lists"
  /\ RestIdle
  /\ StoreIdle

ComputeKeys ==
  /\ phase = "lists"
  /\ ret' = [a |-> getCacheKey(arg.url, arg.a), b |-> getCacheKey(arg.url, arg.b)]
  /\ phase' = "keys"
  /\ UNCHANGED <<arg, compositorVars, hookVars, glVars, storeVars>>

KeyNext == ComputeKeys

KeySpec == KeyInit /\ [][KeyNext]_vars

\* the sequence of (id, properties) of the enabled layers of a list
EnabledContent(layers) ==
  LET idx == SelectSeq([i \in 1..Len(layers) |-> i], LAMBDA i : layers[i].enabled)
  IN  [k \in 1..Len(idx) |-> <<layers[idx[k]].id, layers[idx[k]].properties>>]

GlObject(kind, id) == [kind |-> kind, id |-> id]

\* the object the next gl.create* call returns
NextObject(g, kind) == GlObject(kind, g.next)

\* gl.createShader / createProgram / createTexture / createFramebuffer
glCreate(g, kind) ==
  [g EXCEPT !.next = g.next + 1, !.live = g.live \cup {NextObject(g, kind)}]

\* gl.deleteShader / deleteProgram / deleteTexture / deleteFramebuffer
glDelete(g, obj) ==
  IF obj = NoObject THEN g
  ELSE [g EXCEPT !.live = g.live \ {obj},
                 !.deleted = g.deleted \cup {obj},
                 !.deletedTwice = IF obj \in g.deleted
                                  THEN g.deletedTwice \cup {obj}
                                  ELSE g.deletedTwice]

(***************************************************************************)
(* compileShader, createProgram, ShaderProgramManager.                     *)
(***************************************************************************)
\* createShader returns null / COMPILE_STATUS is false / compiled
ShaderOutcomes == {"ok", "noShader", "compileError"}

\* createProgram returns null / LINK_STATUS is false / linked
LinkOutcomes == {"ok", "noProgram", "linkError"}

\* compileShader(gl, type, source)
compileShader(g, kind, outcome) ==
  CASE outcome = "noShader" -> [gl |-> g, shader |-> NoObject]
    [] outcome = "compileError" ->
         [gl |-> glDelete(glCreate(g, kind), NextObject(g, kind)),
          shader |-> NoObject]
    [] outcome = "ok" ->
         [gl |-> glCreate(g, kind), shader |-> NextObject(g, kind)]

\* createProgram(gl, vertexSource, fragmentSource)
createProgram(g, vertexOutcome, fragmentOutcome, linkOutcome) ==
  LET vs == compileShader(g, "vertexShader", vertexOutcome)
      fs == compileShader(vs.gl, "fragmentShader", fragmentOutcome)
      program == NextObject(fs.gl, "program")
      created == glCreate(fs.gl, "program")
  IN  IF vs.shader = NoObject \/ fs.shader = NoObject
      THEN [gl |-> fs.gl, program |-> NoObject]
      ELSE CASE linkOutcome = "noProgram" -> [gl |-> fs.gl, program |-> NoObject]
             [] linkOutcome = "linkError" ->
                  [gl |-> glDelete(created, program), program |-> NoObject]
             [] linkOutcome = "ok" ->
                  [gl |-> glDelete(glDelete(created, vs.shader), fs.shader),
                   program |-> program]

\* ShaderProgramManager.getProgram(key, vertexSource, fragmentSource) on the
\* manager m and the context g
managerGetProgram(m, g, key, vertexOutcome, fragmentOutcome, linkOutcome) ==
  IF MapHas(m.programs, key)
  THEN [manager |-> m, gl |-> g,
        return |-> [op |-> "getProgram", key |-> key,
                    value |-> MapGet(m.programs, key).program, created |-> FALSE]]
  ELSE
    LET made == createProgram(g, vertexOutcome, fragmentOutcome, linkOutcome)
    IN  [manager |->
           [programs |-> IF made.program # NoObject
                         THEN MapSet(m.programs, [key |-> key, program |-> made.program])
                         ELSE m.programs,
            compiles |-> [m.compiles EXCEPT ![key] = m.compiles[key] + 1],
            failed |-> IF made.program # NoObject
                       THEN m.failed \ {key} ELSE m.failed \cup {key}],
         gl |-> made.gl,
         return |-> [op |-> "getProgram", key |-> key,
                     value |-> made.program, created |-> TRUE]]

RECURSIVE deleteAll(_, _, _)
\* for (const x of map.values()) gl.delete...(x[field])
deleteAll(g, map, field) ==
  IF map = <<>> THEN g
  ELSE deleteAll(glDelete(g, Head(map)[field]), Tail(map), field)

\* ShaderProgramManager.dispose()
managerDispose(m, g) ==
  [manager |-> ProgramManagerInit,
   gl |-> deleteAll(g, m.programs, "program"),
   return |-> [op |-> "dispose", key |-> <<>>, value |-> NoObject, created |-> FALSE]]

(***************************************************************************)
(* ProgramSpec: one ShaderProgramManager under getProgram and dispose.     *)
(***************************************************************************)
\* objects created per behaviour
MaxObjects == 6

\* createProgram calls per key between two disposes
MaxCompiles == 2

SetProgramManager(r) ==
  /\ programManager' = r.manager
  /\ UNCHANGED <<textureCache, pingPongBuffer, quadRenderer>>
  /\ glObjects' = r.gl
  /\ glReturn' = r.return

ProgramInit ==
  /\ GlIdle
  /\ StoreIdle
  /\ PureIdle
  /\ RestIdle

\* the outcomes createProgram can have when getProgram(key) reaches it
\* (the link outcome counts only when both shaders compiled)
CompileOutcomes(key) ==
  IF MapHas(programManager.programs, key)
  THEN {<<"ok", "ok", "ok">>}
  ELSE {o \in ShaderOutcomes \X ShaderOutcomes \X LinkOutcomes :
          (o[1] # "ok" \/ o[2] # "ok") => o[3] = "ok"}

GetProgram ==
  /\ \E key \in ProgramKeys :
       /\ ~MapHas(programManager.programs, key) =>
            /\ glObjects.next + 2 <= MaxObjects
            /\ programManager.compiles[key] < MaxCompiles
       /\ \E o \in CompileOutcomes(key) :
            SetProgramManager(managerGetProgram(programManager, glObjects, key,
                                                o[1], o[2], o[3]))
  /\ UNCHANGED <<compositorVars, hookVars, pureVars, storeVars>>

DisposePrograms ==
  /\ SetProgramManager(managerDispose(programManager, glObjects))
  /\ UNCHANGED <<compositorVars, hookVars, pureVars, storeVars>>

ProgramNext == GetProgram \/ DisposePrograms

ProgramSpec == ProgramInit /\ [][ProgramNext]_vars

\* C12: between construction (or a dispose) and the next dispose, getProgram
\* compiles and links at most once for each type.
C12_CompiledAtMostOnce ==
  \A key \in ProgramKeys : programManager.compiles[key] <= 1

\* what holds of the cache: a call for a cached type returns the cached
\* handle and creates and deletes nothing; a type is compiled at most once
\* successfully; dispose empties the cache and deletes every cached program;
\* a program made after that is an object never seen before.
C12_CachedUntilDispose ==
  [][/\ (glReturn'.op = "getProgram" /\ MapHas(programManager.programs, glReturn'.key)) =>
          /\ glReturn'.value = MapGet(programManager.programs, glReturn'.key).program
          /\ ~glReturn'.created
          /\ glObjects' = glObjects
          /\ programManager' = programManager
     /\ (glReturn'.op = "getProgram" /\ glReturn'.created /\ glReturn'.value # NoObject) =>
          /\ glReturn'.value \notin glObjects.live \cup glObjects.deleted
          /\ glReturn'.value \in glObjects'.live
     /\ glReturn'.op = "dispose" =>
          /\ programManager'.programs = <<>>
          /\ \A k \in 1..Len(programManager.programs) :
               /\ programManager.programs[k].program \in glObjects'.deleted
               /\ programManager.programs[k].program \notin glObjects'.live]_vars

\* C13: once createProgram has failed for a type, getProgram for that type
\* returns failure without calling createProgram again, until dispose.
C13_FailureIsRemembered ==
  [][(glReturn'.op = "getProgram" /\ glReturn'.key \in programManager.failed) =>
       ~glReturn'.created /\ glReturn'.value = NoObject]_vars

\* what happens instead: every call for a type that is not cached calls
\* createProgram again
C13_RetriedEveryCall ==
  [][(glReturn'.op = "getProgram" /\ glReturn'.key \in programManager.failed) =>
       glReturn'.created]_vars


(***************************************************************************)
(* createTextureFromImage, TextureCache, handle by handle.                 *)
(***************************************************************************)
\* createTextureFromImage(gl, image); ok: gl.createTexture() is not null
createTextureFromImage(g, ok) ==
  IF ok THEN [gl |-> glCreate(g, "texture"), texture |-> NextObject(g, "texture")]
  ELSE [gl |-> g, texture |-> NoObject]

\* TextureCache.getTexture(url, image) on the cache t and the context g
cacheGetTexture(t, g, url, ok) ==
  IF MapHas(t.textures, url)
  THEN [cache |-> t, gl |-> g,
        return |-> [op |-> "getTexture", key |-> url,
                    value |-> MapGet(t.textures, url).texture, created |-> FALSE]]
  ELSE
    LET made == createTextureFromImage(g, ok)
    IN  [cache |->
           [textures |-> IF made.texture # NoObject
                         THEN MapSet(t.textures, [key |-> url, texture |-> made.texture])
                         ELSE t.textures,
            created |-> IF made.texture # NoObject
                        THEN [t.created EXCEPT ![url] = t.created[url] + 1]
                        ELSE t.created],
         gl |-> made.gl,
         return |-> [op |-> "getTexture", key |-> url,
                     value |-> made.texture, created |-> made.texture # NoObject]]

\* removeTexture that deletes the texture and keeps the Map entry
cacheRemoveTextureKeepEntry(t, g, url) ==
  IF MapHas(t.textures, url)
  THEN [cache |-> [t EXCEPT !.created[url] = 0],
        gl |-> glDelete(g, MapGet(t.textures, url).texture),
        return |-> [op |-> "removeTexture", key |-> url,
                    value |-> MapGet(t.textures, url).texture, created |-> FALSE]]
  ELSE [cache |-> t, gl |-> g,
        return |-> [op |-> "removeTexture", key |-> url,
                    value |-> NoObject, created |-> FALSE]]

\* TextureCache.removeTexture(url)
cacheRemoveTexture(t, g, url) ==
  IF MapHas(t.textures, url)
  THEN [cache |-> [textures |-> MapDelete(t.textures, url),
                   created |-> [t.created EXCEPT ![url] = 0]],
        gl |-> glDelete(g, MapGet(t.textures, url).texture),
        return |-> [op |-> "removeTexture", key |-> url,
                    value |-> MapGet(t.textures, url).texture, created |-> FALSE]]
  ELSE [cache |-> t, gl |-> g,
        return |-> [op |-> "removeTexture", key |-> url,
                    value |-> NoObject, created |-> FALSE]]

\* TextureCache.dispose()
cacheDispose(t, g) ==
  [cache |-> TextureCacheInit,
   gl |-> deleteAll(g, t.textures, "texture"),
   return |-> [op |-> "dispose", key |-> <<>>, value |-> NoObject, created |-> FALSE]]

(***************************************************************************)
(* TextureSpec: one TextureCache under getTexture, removeTexture, dispose. *)
(***************************************************************************)
SetTextureCache(r) ==
  /\ textureCache' = r.cache
  /\ glObjects' = r.gl
  /\ glReturn' = r.return
  /\ UNCHANGED <<programManager, pingPongBuffer, quadRenderer>>

TextureInit ==
  /\ GlIdle
  /\ StoreIdle
  /\ PureIdle
  /\ RestIdle

\* the outcomes gl.createTexture can have when getTexture(url) reaches it
CreateTextureOutcomes(url) ==
  IF MapHas(textureCache.textures, url) THEN {TRUE} ELSE BOOLEAN

GetTexture ==
  /\ \E url \in TextureUrls :
       /\ ~MapHas(textureCache.textures, url) => glObjects.next <= MaxObjects
       /\ \E ok \in CreateTextureOutcomes(url) :
            SetTextureCache(cacheGetTexture(textureCache, glObjects, url, ok))
  /\ UNCHANGED <<compositorVars, hookVars, pureVars, storeVars>>

RemoveTexture ==
  /\ \E url \in TextureUrls :
       SetTextureCache(cacheRemoveTexture(textureCache, glObjects, url))
  /\ UNCHANGED <<compositorVars, hookVars, pureVars, storeVars>>

DisposeTextures ==
  /\ SetTextureCache(cacheDispose(textureCache, glObjects))
  /\ UNCHANGED <<compositorVars, hookVars, pureVars, storeVars>>

TextureNext == GetTexture \/ RemoveTexture \/ DisposeTextures

TextureSpec == TextureInit /\ [][TextureNext]_vars

\* C14: a url has a cached texture exactly when one texture has been created
\* for it since its last removal or the last dispose, and never more than
\* one; getTexture for a cached url returns the cached handle and creates
\* and deletes nothing; a texture that is created is a new object;
\* removeTexture(url) deletes the texture of url and nothing else and takes
\* only that entry out of the cache; dispose deletes every cached texture
\* and empties the cache.
C14_TextureOncePerSource ==
  /\ [](\A url \in TextureUrls :
          /\ textureCache.created[url] <= 1
          /\ textureCache.created[url] = 1 <=> MapHas(textureCache.textures, url))
  /\ [][/\ (glReturn'.op = "getTexture" /\ MapHas(textureCache.textures, glReturn'.key)) =>
             /\ glReturn'.value = MapGet(textureCache.textures, glReturn'.key).texture
             /\ glObjects' = glObjects
             /\ textureCache' = textureCache
        /\ (glReturn'.op = "getTexture" /\ glReturn'.created) =>
             /\ glReturn'.value \notin glObjects.live \cup glObjects.deleted
             /\ glObjects'.live = glObjects.live \cup {glReturn'.value}
             /\ MapGet(textureCache'.textures, glReturn'.key).texture = glReturn'.value
        /\ glReturn'.op = "removeTexture" =>
             /\ textureCache'.textures = MapDelete(textureCache.textures, glReturn'.key)
             /\ glObjects'.live = glObjects.live \ {glReturn'.value}
             /\ MapHas(textureCache.textures, glReturn'.key) =>
                  /\ glReturn'.value = MapGet(textureCache.textures, glReturn'.key).texture
                  /\ glReturn'.value \in glObjects'.deleted
        /\ glReturn'.op = "dispose" =>
             /\ textureCache'.textures = <<>>
             /\ glObjects'.live =
                  glObjects.live \ {textureCache.textures[k].texture :
                                      k \in 1..Len(textureCache.textures)}
             /\ \A k \in 1..Len(textureCache.textures) :
                  textureCache.textures[k].texture \in glObjects'.deleted]_vars

\* a texture created for a url whose earlier texture was removed, while the
\* other url keeps its texture
C14_Witness ==
  /\ glReturn.op = "getTexture"
  /\ glReturn.created
  /\ Len(textureCache.textures) = 2
  /\ glObjects.deleted # {}
  /\ textureCache.textures[1].texture.id < textureCache.textures[2].texture.id - 1


(***************************************************************************)
(* createFramebuffer and PingPongBuffer, handle by handle.                 *)
(***************************************************************************)
\* createFramebuffer(gl, width, height) on the context g
createFramebufferObjects(g, w, h, outcome) ==
  LET framebuffer == NextObject(g, "framebuffer")
      g1 == glCreate(g, "framebuffer")
      texture == NextObject(g1, "texture")
      g2 == glCreate(g1, "texture")
  IN  CASE outcome = "noFramebuffer" -> [gl |-> g, fb |-> NullFramebuffer]
        [] outcome = "noTexture" ->
             [gl |-> glDelete(g1, framebuffer), fb |-> NullFramebuffer]
        [] outcome = "incomplete" ->
             [gl |-> glDelete(glDelete(g2, framebuffer), texture),
              fb |-> NullFramebuffer]
        [] outcome = "ok" ->
             [gl |-> g2,
              fb |-> [framebuffer |-> framebuffer, texture |-> texture,
                      width |-> w, height |-> h]]

\* deleteFramebuffer that leaves the attached texture
deleteFramebufferOnly(g, fb) == glDelete(g, fb.framebuffer)

\* deleteFramebuffer(gl, fb)
deleteFramebuffer(g, fb) == glDelete(glDelete(g, fb.framebuffer), fb.texture)

\* PingPongBuffer.dispose() on the buffer pair b and the context g
bufferDispose(b, g) ==
  LET g0 == IF b.framebuffers[1] # NullFramebuffer
            THEN deleteFramebuffer(g, b.framebuffers[1]) ELSE g
      g1 == IF b.framebuffers[2] # NullFramebuffer
            THEN deleteFramebuffer(g0, b.framebuffers[2]) ELSE g0
  IN  [buffer |-> [b EXCEPT !.framebuffers = <<NullFramebuffer, NullFramebuffer>>],
       gl |-> g1,
       return |-> [op |-> "dispose", key |-> <<>>, value |-> NoObject,
                   created |-> FALSE]]

\* PingPongBuffer.resize(width, height); value: what resize returns
bufferResize(b, g, w, h, o0, o1) ==
  IF b.width = w /\ b.height = h
  THEN [buffer |-> b, gl |-> g,
        return |-> [op |-> "resize", key |-> <<w, h>>, value |-> TRUE,
                    created |-> FALSE]]
  ELSE
    LET disposed == bufferDispose([b EXCEPT !.width = w, !.height = h], g)
        fb0 == createFramebufferObjects(disposed.gl, w, h, o0)
        fb1 == createFramebufferObjects(fb0.gl, w, h, o1)
    IN  [buffer |-> [disposed.buffer EXCEPT !.framebuffers = <<fb0.fb, fb1.fb>>],
         gl |-> fb1.gl,
         return |-> [op |-> "resize", key |-> <<w, h>>,
                     value |-> fb0.fb # NullFramebuffer /\ fb1.fb # NullFramebuffer,
                     created |-> TRUE]]

(***************************************************************************)
(* BufferSpec: one PingPongBuffer under resize and dispose.                *)
(***************************************************************************)
\* objects created per behaviour of BufferSpec
MaxBufferObjects == 10

SetPingPongBuffer(r) ==
  /\ pingPongBuffer' = r.buffer
  /\ glObjects' = r.gl
  /\ glReturn' = r.return
  /\ UNCHANGED <<programManager, textureCache, quadRenderer>>

BufferInit ==
  /\ GlIdle
  /\ StoreIdle
  /\ PureIdle
  /\ RestIdle

\* the outcomes createFramebuffer can have when resize(w, h) reaches it
CreateFramebufferOutcomes(w, h) ==
  IF pingPongBuffer.width = w /\ pingPongBuffer.height = h
  THEN {"ok"} ELSE FramebufferOutcomes

BufferResize ==
  /\ \E w \in Widths, h \in Heights :
       /\ (pingPongBuffer.width # w \/ pingPongBuffer.height # h) =>
            glObjects.next + 3 <= MaxBufferObjects
       /\ \E o0 \in CreateFramebufferOutcomes(w, h),
             o1 \in CreateFramebufferOutcomes(w, h) :
            SetPingPongBuffer(bufferResize(pingPongBuffer, glObjects, w, h, o0, o1))
  /\ UNCHANGED <<compositorVars, hookVars, pureVars, storeVars>>

BufferDispose ==
  /\ SetPingPongBuffer(bufferDispose(pingPongBuffer, glObjects))
  /\ UNCHANGED <<compositorVars, hookVars, pureVars, storeVars>>

BufferNext == BufferResize \/ BufferDispose

BufferSpec == BufferInit /\ [][BufferNext]_vars

\* the GL objects of a buffer pair
ObjectsOf(b) ==
  UNION { IF b.framebuffers[k] = NullFramebuffer THEN {}
          ELSE {b.framebuffers[k].framebuffer, b.framebuffers[k].texture} :
          k \in 1..2 }

\* both framebuffers of the pair exist with dimensions (w, h)
BothAt(b, w, h) ==
  \A k \in 1..2 :
    /\ b.framebuffers[k] # NullFramebuffer
    /\ b.framebuffers[k].width = w
    /\ b.framebuffers[k].height = h

\* C15: resize(w, h) at the current dimensions creates and deletes nothing;
\* at other dimensions it deletes the existing framebuffers and their
\* textures; and whenever it returns true both framebuffers exist with
\* dimensions (w, h).
C15_ResizeRecreates ==
  [][glReturn'.op = "resize" =>
       LET w == glReturn'.key[1]
           h == glReturn'.key[2]
       IN  /\ (pingPongBuffer.width = w /\ pingPongBuffer.height = h) =>
                glObjects' = glObjects
           /\ (pingPongBuffer.width # w \/ pingPongBuffer.height # h) =>
                ObjectsOf(pingPongBuffer) \cap glObjects'.live = {}
           /\ glReturn'.value => BothAt(pingPongBuffer', w, h)]_vars

\* the part of C15 that holds: nothing is created or deleted at the current
\* dimensions, the old objects are deleted otherwise, and a resize that
\* creates both framebuffers returns true with both at (w, h)
C15_RecreatesOnChange ==
  [][glReturn'.op = "resize" =>
       LET w == glReturn'.key[1]
           h == glReturn'.key[2]
       IN  /\ (pingPongBuffer.width = w /\ pingPongBuffer.height = h) =>
                glObjects' = glObjects /\ pingPongBuffer' = pingPongBuffer
           /\ (pingPongBuffer.width # w \/ pingPongBuffer.height # h) =>
                /\ ObjectsOf(pingPongBuffer) \cap glObjects'.live = {}
                /\ ObjectsOf(pingPongBuffer) \subseteq glObjects'.deleted
                /\ ObjectsOf(pingPongBuffer') \cap
                     (glObjects.live \cup glObjects.deleted) = {}
                /\ glReturn'.value <=> BothAt(pingPongBuffer', w, h)]_vars

\* C16: a resize that returns false leaves the buffer pair as it was: the
\* old framebuffers, still live, and the old recorded width and height.
C16_NoPartialMutation ==
  [][(glReturn'.op = "resize" /\ ~glReturn'.value) =>
       /\ pingPongBuffer' = pingPongBuffer
       /\ ObjectsOf(pingPongBuffer) \subseteq glObjects'.live]_vars

\* what a failed resize leaves: the new width and height recorded, the old
\* pair deleted, and in the pair whichever framebuffer was created
C16_FailedResizeMutates ==
  [][(glReturn'.op = "resize" /\ ~glReturn'.value) =>
       /\ pingPongBuffer'.width = glReturn'.key[1]
       /\ pingPongBuffer'.height = glReturn'.key[2]
       /\ ObjectsOf(pingPongBuffer) \cap glObjects'.live = {}
       /\ ~BothAt(pingPongBuffer', glReturn'.key[1], glReturn'.key[2])]_vars


(***************************************************************************)
(* DegradedSpec: getProcessedImage on the mounted hook while creation of   *)
(* the source texture and of the ping-pong framebuffers may fail.          *)
(***************************************************************************)
DegradedImage == [src |-> RenderUrl, complete |-> TRUE]

\* one active layer, and two active layers
DegradedLayerLists ==
  { <<RenderLayer(1, TRUE, 0)>>,
    <<RenderLayer(1, TRUE, 0), RenderLayer(2, TRUE, 1)>> }

DegradedInit ==
  /\ width = 0
  /\ height = 0
  /\ pingPong = PingPongInit
  /\ programs = {}
  /\ textures = {}
  /\ quad = QuadInit(TRUE, TRUE)
  /\ last = NoRender
  /\ compositorRef = TRUE
  /\ processedCache = <<>>
  /\ clock = 0
  /\ returned = Call("mount", "ready", <<>>, <<>>, 0, 0)
  /\ PureIdle
  /\ GlIdle
  /\ StoreIdle

DegradedRequest ==
  /\ clock < MaxPuts
  /\ \E layers \in DegradedLayerLists, w \in Widths, ht \in Heights :
       \E created \in TextureOutcomes(DegradedImage.src),
          o0 \in ResizeOutcomes(w, ht), o1 \in ResizeOutcomes(w, ht) :
         SetHook(getProcessedImage(Hook, DegradedImage, layers, w, ht,
                                   [created |-> created, broken |-> {},
                                    o0 |-> o0, o1 |-> o1]))
  /\ UNCHANGED <<pureVars, glVars, storeVars>>

DegradedNext == DegradedRequest

DegradedSpec == DegradedInit /\ [][DegradedNext]_vars

\* the composite of the latest call ran without its source texture, or with
\* a ping-pong framebuffer missing
CreationFailed ==
  \/ last.status = "noTexture"
  \/ \E k \in 0..1 : ~pingPong.framebuffers[k].exists

\* C17: when the source texture or a ping-pong framebuffer could not be
\* created, no pass before the last is drawn into the destination, the call
\* does not return a processed raster, and the cache does not hold an entry
\* for the call's fingerprint.
C17_FailureFallsBack ==
  (returned.op = "getProcessedImage" /\ returned.result # "cached"
     /\ CreationFailed) =>
    /\ \A k \in 1..Len(last.passes) :
         ~last.passes[k].isLastPass => last.passes[k].framebuffer # NullHandle
    /\ returned.result = "image"
    /\ ~MapHas(processedCache, returned.key)

\* what the hook does: a call that is not answered from the cache returns
\* the output canvas and caches it under the fingerprint, whether or not
\* the composite had its resources
C17_AlwaysCached ==
  returned.op = "getProcessedImage" =>
    /\ returned.result \in {"processed", "cached"}
    /\ MapHas(processedCache, returned.key)


(***************************************************************************)
(* Repeatability of composites (checked under Spec).                       *)
(***************************************************************************)
\* the passes of the same composite on a new compositor whose resources
\* are all created
FreshPasses(layers, w, h) ==
  render(compositorResize(NewCompositor(TRUE, TRUE), w, h, "ok", "ok"),
         RenderUrl, layers, TRUE, {}, "ok", "ok").last.passes

\* C18: a composite that directly follows a composite of the same layer
\* list at the same dimensions issues the same sequence of passes.
C18_SameCompositeSamePasses ==
  [][(/\ last.status = "composite"
      /\ last'.status = "composite"
      /\ last'.layers = last.layers
      /\ width' = width
      /\ height' = height) => last'.passes = last.passes]_vars

\* what holds: a composite in which every program is available, on a
\* compositor that has its vertex array and both framebuffers, issues the
\* passes a new compositor issues, whatever ran before it
C18_HealthyCompositeAsFresh ==
  (/\ Composite
   /\ last.skipped = {}
   /\ quad.vao /\ quad.buffer
   /\ \A k \in 0..1 : pingPong.framebuffers[k].exists)
    => last.passes = FreshPasses(last.layers, width, height)

\* a healthy composite of two passes, which leaves the ping-pong index at 1
C18_EndsOnIndexOne ==
  /\ Composite
  /\ last.skipped = {}
  /\ quad.vao /\ quad.buffer
  /\ \A k \in 0..1 : pingPong.framebuffers[k].exists
  /\ Len(last.passes) = 2
  /\ pingPong.currentIndex = 1


(***************************************************************************)
(* The shader-layer actions of the store (store/actions/shader-actions.ts) *)
(* on the images of canvasStateAtom.                                       *)
(***************************************************************************)
\* the ids generateId may hand out in all: it is called once for the canvas,
\* once per added image and once per added or duplicated layer
MaxIds == 4

MaxImages == 2

\* the value the previous call returned
repeatedId(n) == n

\* generateId: crypto.randomUUID(), a value never returned before; the
\* n-th call returns n
generateId(n) == n + 1

\* the first image, whatever its id
firstImage(imgs, imageId) == IF Len(imgs) > 0 THEN 1 ELSE 0

\* images.find((img) => img.id === imageId): its position, 0 when absent
findImage(imgs, imageId) ==
  IF \E i \in 1..Len(imgs) : imgs[i].id = imageId
    THEN CHOOSE i \in 1..Len(imgs) :
           /\ imgs[i].id = imageId
           /\ \A j \in 1..(i - 1) : imgs[j].id # imageId
    ELSE 0

\* the last position of the list when it has a layer of that id
lastLayer(layers, layerId) ==
  IF \E i \in 1..Len(layers) : layers[i].id = layerId THEN Len(layers) ELSE 0

\* layers.findIndex((l) => l.id === layerId), counted from 1; 0 when absent
findLayer(layers, layerId) ==
  IF \E i \in 1..Len(layers) : layers[i].id = layerId
    THEN CHOOSE i \in 1..Len(layers) :
           /\ layers[i].id = layerId
           /\ \A j \in 1..(i - 1) : layers[j].id # layerId
    ELSE 0

\* the number of images
countZIndex(imgs) == Len(imgs)

\* getNextZIndex
getNextZIndex(imgs) ==
  IF Len(imgs) = 0 THEN 1
  ELSE (CHOOSE z \in { imgs[i].zIndex : i \in 1..Len(imgs) } :
          \A i \in 1..Len(imgs) : imgs[i].zIndex <= z) + 1

\* addImageAtom, with the fields of the image the layer actions carry along
addImage(imgs, id) ==
  Append(imgs, [id |-> id, shaderLayers |-> <<>>, zIndex |-> getNextZIndex(imgs),
                locked |-> FALSE, visible |-> TRUE])

\* the layers with the order values they have
keepOrderValues(layers) == layers

\* .map((layer, index) => ({ ...layer, order: index }))
orderByIndex(layers) ==
  [i \in 1..Len(layers) |-> [layers[i] EXCEPT !.order = i - 1]]

\* addShaderLayerAtom: the images it sets and the value it returns (0: null);
\* id is the value generateId returns
addShaderLayer(imgs, imageId, shaderType, id) ==
  LET at == findImage(imgs, imageId)
  IN  IF at = 0
        THEN [images |-> imgs, value |-> 0, generated |-> FALSE]
        ELSE LET newLayer ==
                   createCoreShaderLayer(shaderType, id, Len(imgs[at].shaderLayers))
                 append(layers) == Append(layers, newLayer)
             IN  [images |-> [k \in 1..Len(imgs) |->
                                IF imgs[k].id = imageId
                                  THEN [imgs[k] EXCEPT
                                          !.shaderLayers = append(imgs[k].shaderLayers)]
                                  ELSE imgs[k]],
                  value |-> newLayer.id, generated |-> TRUE]

\* removeShaderLayerAtom
removeShaderLayer(imgs, imageId, layerId) ==
  LET remove(layers) ==
        orderByIndex(SelectSeq(layers, LAMBDA layer : layer.id # layerId))
  IN  [k \in 1..Len(imgs) |->
         IF imgs[k].id = imageId
           THEN [imgs[k] EXCEPT
                   !.shaderLayers = remove(imgs[k].shaderLayers)]
           ELSE imgs[k]]

\* the merge of updateShaderLayerAtom: changes is a record with any of the
\* fields enabled, order and properties; a field left out is undefined
mergeChanges(layer, changes) ==
  LET enabled ==
        IF "enabled" \in DOMAIN changes THEN changes.enabled ELSE layer.enabled
      order ==
        IF "order" \in DOMAIN changes THEN changes.order ELSE layer.order
      properties ==
        IF "properties" \in DOMAIN changes
          THEN changes.properties ELSE layer.properties
  IN  [layer EXCEPT !.enabled = enabled, !.order = order,
                    !.properties = properties]

\* updateShaderLayerAtom
updateShaderLayer(imgs, imageId, layerId, changes) ==
  LET update(layers) ==
        [i \in 1..Len(layers) |->
           IF layers[i].id # layerId THEN layers[i]
           ELSE mergeChanges(layers[i], changes)]
  IN  [k \in 1..Len(imgs) |->
         IF imgs[k].id = imageId
           THEN [imgs[k] EXCEPT
                   !.shaderLayers = update(imgs[k].shaderLayers)]
           ELSE imgs[k]]

\* the addressed layer enabled, whatever it was
enableShaderLayer(imgs, imageId, layerId) ==
  LET enable(layers) ==
        [i \in 1..Len(layers) |->
           IF layers[i].id = layerId
             THEN [layers[i] EXCEPT !.enabled = TRUE]
             ELSE layers[i]]
  IN  [k \in 1..Len(imgs) |->
         IF imgs[k].id = imageId
           THEN [imgs[k] EXCEPT
                   !.shaderLayers = enable(imgs[k].shaderLayers)]
           ELSE imgs[k]]

\* toggleShaderLayerAtom
toggleShaderLayer(imgs, imageId, layerId) ==
  LET toggle(layers) ==
        [i \in 1..Len(layers) |->
           IF layers[i].id = layerId
             THEN [layers[i] EXCEPT !.enabled = ~layers[i].enabled]
             ELSE layers[i]]
  IN  [k \in 1..Len(imgs) |->
         IF imgs[k].id = imageId
           THEN [imgs[k] EXCEPT
                   !.shaderLayers = toggle(imgs[k].shaderLayers)]
           ELSE imgs[k]]

\* the second of two numbers
Upper(a, b) == b

Min(a, b) == IF a < b THEN a ELSE b

Max(a, b) == IF a > b THEN a ELSE b

\* reorderShaderLayerAtom
reorderShaderLayer(imgs, imageId, layerId, newOrder) ==
  LET at == findImage(imgs, imageId)
  IN  IF at = 0 THEN imgs
      ELSE
        LET layers == imgs[at].shaderLayers
            currentIndex == findLayer(layers, layerId)
        IN  IF currentIndex = 0 THEN imgs
            ELSE
              LET layer == layers[currentIndex]
                  rest == SubSeq(layers, 1, currentIndex - 1)
                            \o SubSeq(layers, currentIndex + 1, Len(layers))
                  newIndex == Max(0, Min(newOrder, Len(rest)))
                  spliced == SubSeq(rest, 1, newIndex) \o <<layer>>
                               \o SubSeq(rest, newIndex + 1, Len(rest))
                  reorderedLayers == orderByIndex(spliced)
                  put(ignored) == reorderedLayers
              IN  [k \in 1..Len(imgs) |->
                     IF imgs[k].id = imageId
                       THEN [imgs[k] EXCEPT
                               !.shaderLayers = put(imgs[k].shaderLayers)]
                       ELSE imgs[k]]

\* clearShaderLayersAtom
clearShaderLayers(imgs, imageId) ==
  LET clear(layers) == <<>>
  IN  [k \in 1..Len(imgs) |->
         IF imgs[k].id = imageId
           THEN [imgs[k] EXCEPT
                   !.shaderLayers = clear(imgs[k].shaderLayers)]
           ELSE imgs[k]]

\* duplicateShaderLayerAtom: the images it sets and the value it returns
\* (0: null); id is the value generateId returns
duplicateShaderLayer(imgs, imageId, layerId, id) ==
  LET at == findImage(imgs, imageId)
  IN  IF at = 0
        THEN [images |-> imgs, value |-> 0, generated |-> FALSE]
        ELSE
          LET layers == imgs[at].shaderLayers
              found == findLayer(layers, layerId)
          IN  IF found = 0
                THEN [images |-> imgs, value |-> 0, generated |-> FALSE]
                ELSE
                  LET newLayer ==
                        [layers[found] EXCEPT !.id = id, !.order = Len(layers)]
                      append(ls) == Append(ls, newLayer)
                  IN  [images |-> [k \in 1..Len(imgs) |->
                                     IF imgs[k].id = imageId
                                       THEN [imgs[k] EXCEPT
                                               !.shaderLayers = append(imgs[k].shaderLayers)]
                                       ELSE imgs[k]],
                       value |-> newLayer.id, generated |-> TRUE]

SetStore(imgs, n, call) ==
  /\ images' = imgs
  /\ generated' = n
  /\ storeReturn' = call
  /\ UNCHANGED <<selectedImageIds, interactionVars, compositorVars, hookVars,
                 pureVars, glVars>>

StoreCall(op, imageId, layerId, value) ==
  [op |-> op, imageId |-> imageId, layerId |-> layerId, value |-> value,
   shaderType |-> ""]

\* an id no image and no layer has: generateId never returns it
UnknownId == 0

\* the image ids a payload may name: those of the images and an unknown one
ImageIds == { images[i].id : i \in 1..Len(images) } \cup {UnknownId}

\* the layer ids a payload may name: those of the layers of any image and
\* an unknown one
LayerIds ==
  UNION { { images[i].shaderLayers[j].id : j \in 1..Len(images[i].shaderLayers) } :
          i \in 1..Len(images) } \cup {UnknownId}

\* the shader type the actions are called with
StoreTypes == {"brightness"}

\* the changes updateShaderLayerAtom is called with
StoreChanges ==
  { [order |-> 2],
    [enabled |-> FALSE, properties |-> [value |-> 20]] }

\* the positions reorderShaderLayerAtom is called with
NewOrders == -1..3

\* createCanvasState(generateId()): no image, one id generated
StoreInit ==
  /\ images = <<>>
  /\ generated = 1
  /\ storeReturn = NoStoreCall
  /\ selectedImageIds = <<>>
  /\ InteractionIdle
  /\ RestIdle
  /\ PureIdle

AddImage ==
  /\ generated < MaxIds
  /\ Len(images) < MaxImages
  /\ LET id == generateId(generated)
     IN  SetStore(addImage(images, id), id, StoreCall("addImage", id, 0, id))

\* addShaderLayerAtom called with one of the given types, while fewer than
\* maxIds ids have been generated
AddShaderLayerOf(types, maxIds) ==
  /\ generated < maxIds
  /\ \E imageId \in ImageIds, shaderType \in types :
       LET id == generateId(generated)
           out == addShaderLayer(images, imageId, shaderType, id)
       IN  SetStore(out.images, IF out.generated THEN id ELSE generated,
                    [StoreCall("addShaderLayer", imageId, 0, out.value)
                       EXCEPT !.shaderType = shaderType])

AddShaderLayer == AddShaderLayerOf(StoreTypes, MaxIds)

RemoveShaderLayer ==
  \E imageId \in ImageIds, layerId \in LayerIds :
    SetStore(removeShaderLayer(images, imageId, layerId), generated,
             StoreCall("removeShaderLayer", imageId, layerId, 0))

UpdateShaderLayer ==
  \E imageId \in ImageIds, layerId \in LayerIds, changes \in StoreChanges :
    SetStore(updateShaderLayer(images, imageId, layerId, changes), generated,
             StoreCall("updateShaderLayer", imageId, layerId, 0))

ToggleShaderLayer ==
  \E imageId \in ImageIds, layerId \in LayerIds :
    SetStore(toggleShaderLayer(images, imageId, layerId), generated,
             StoreCall("toggleShaderLayer", imageId, layerId, 0))

ReorderShaderLayer ==
  \E imageId \in ImageIds, layerId \in LayerIds, newOrder \in NewOrders :
    SetStore(reorderShaderLayer(images, imageId, layerId, newOrder), generated,
             StoreCall("reorderShaderLayer", imageId, layerId, newOrder))

ClearShaderLayers ==
  \E imageId \in ImageIds :
    SetStore(clearShaderLayers(images, imageId), generated,
             StoreCall("clearShaderLayers", imageId, 0, 0))

\* duplicateShaderLayerAtom, while fewer than maxIds ids have been generated
DuplicateShaderLayerWithin(maxIds) ==
  /\ generated < maxIds
  /\ \E imageId \in ImageIds, layerId \in LayerIds :
       LET id == generateId(generated)
           out == duplicateShaderLayer(images, imageId, layerId, id)
       IN  SetStore(out.images, IF out.generated THEN id ELSE generated,
                    StoreCall("duplicateShaderLayer", imageId, layerId, out.value))

DuplicateShaderLayer == DuplicateShaderLayerWithin(MaxIds)

StoreNext ==
  \/ AddImage
  \/ AddShaderLayer
  \/ RemoveShaderLayer
  \/ UpdateShaderLayer
  \/ ToggleShaderLayer
  \/ ReorderShaderLayer
  \/ ClearShaderLayers
  \/ DuplicateShaderLayer

StoreSpec == StoreInit /\ [][StoreNext]_vars


(***************************************************************************)
(* removeShaderLayerAtom on the layer lists of one image.                  *)
(***************************************************************************)
\* a layer as the store can hold it: made by addShaderLayerAtom, then
\* toggled, and given any order by updateShaderLayerAtom
StoredLayers(id) ==
  { [createCoreShaderLayer(type, id, 0) EXCEPT !.enabled = on, !.order = order] :
      type \in {"brightness", "invert"}, on \in BOOLEAN, order \in 0..2 }

\* the layer lists of an image whose id is 2: n layers with the ids
\* generateId returned for them, in the sequence of their creation or,
\* after reorderShaderLayerAtom, in the opposite one
StoredLists ==
  UNION { { layers \in [1..n -> UNION { StoredLayers(id) : id \in 3..(n + 2) }] :
              \/ \A i \in 1..n : layers[i].id = i + 2
              \/ \A i \in 1..n : layers[i].id = n + 3 - i } :
          n \in 0..MaxLayers }

RemoveInit ==
  /\ \E layers \in StoredLists :
       /\ images = <<[addImage(<<>>, 2)[1] EXCEPT !.shaderLayers = layers]>>
       /\ generated = Len(layers) + 2
  /\ storeReturn = NoStoreCall
  /\ selectedImageIds = <<>>
  /\ InteractionIdle
  /\ RestIdle
  /\ PureIdle

RemoveNext == RemoveShaderLayer

RemoveSpec == RemoveInit /\ [][RemoveNext]_vars

\* a layer without its order
Unordered(layer) == [layer EXCEPT !.order = 0]

\* C19: removeShaderLayerAtom applied to layer k of an image with n layers
\* leaves the other n-1 layers in their previous relative order, unchanged
\* but for their order values, which are their array indices 0..n-2.
C19_RemoveResequences ==
  [][storeReturn'.op = "removeShaderLayer" =>
       /\ Len(images') = Len(images)
       /\ \A i \in 1..Len(images) :
            LET before == images[i].shaderLayers
                after == images'[i].shaderLayers
                k == findLayer(before, storeReturn'.layerId)
            IN  (images[i].id = storeReturn'.imageId /\ k # 0) =>
                  /\ Len(after) = Len(before) - 1
                  /\ \A j \in 1..Len(after) :
                       /\ after[j].order = j - 1
                       /\ Unordered(after[j]) =
                            Unordered(before[IF j < k THEN j ELSE j + 1])
                  /\ images'[i] = [images[i] EXCEPT !.shaderLayers = after]]_vars

\* the middle layer of three has been removed: the two that were around it
\* remain, with the orders 0 and 1
C19_Witness ==
  /\ storeReturn.op = "removeShaderLayer"
  /\ storeReturn.imageId = 2
  /\ storeReturn.layerId = 4
  /\ Len(images) = 1
  /\ Len(images[1].shaderLayers) = 2
  /\ images[1].shaderLayers[1].id = 3
  /\ images[1].shaderLayers[2].id = 5
  /\ images[1].shaderLayers[1].order = 0
  /\ images[1].shaderLayers[2].order = 1
  /\ ~images[1].shaderLayers[2].enabled


(***************************************************************************)
(* The order values of an image's layers (checked under StoreSpec).        *)
(***************************************************************************)
\* the order values of the layers are exactly 0..n-1, each once
Contiguous(layers) ==
  /\ { layers[i].order : i \in 1..Len(layers) } = 0..(Len(layers) - 1)
  /\ \A i, j \in 1..Len(layers) : layers[i].order = layers[j].order => i = j

\* C20: after any sequence of shader-layer actions on an image (add,
\* remove, update, toggle, reorder, duplicate, clear) the order values of
\* the image's layers are contiguous: exactly 0..n-1, with no duplicates.
C20_OrdersContiguous ==
  \A i \in 1..Len(images) : Contiguous(images[i].shaderLayers)

\* what holds: every action but updateShaderLayerAtom keeps the order
\* values of every image contiguous
C20_OnlyUpdateBreaks ==
  [][(/\ storeReturn'.op # "updateShaderLayer"
      /\ \A i \in 1..Len(images) : Contiguous(images[i].shaderLayers))
       => \A i \in 1..Len(images') : Contiguous(images'[i].shaderLayers)]_vars


(***************************************************************************)
(* reorderShaderLayerAtom on the layer lists of one image.                 *)
(***************************************************************************)
\* the stored layer lists whose layers are all of the type brightness
ReorderLists ==
  { layers \in StoredLists :
      \A i \in 1..Len(layers) : layers[i].type = "brightness" }

ReorderInit ==
  /\ \E layers \in ReorderLists :
       /\ images = <<[addImage(<<>>, 2)[1] EXCEPT !.shaderLayers = layers]>>
       /\ generated = Len(layers) + 2
  /\ storeReturn = NoStoreCall
  /\ selectedImageIds = <<>>
  /\ InteractionIdle
  /\ RestIdle
  /\ PureIdle

ReorderNext == ReorderShaderLayer

ReorderSpec == ReorderInit /\ [][ReorderNext]_vars

\* a sequence without its k-th element
Without(seq, k) == SubSeq(seq, 1, k - 1) \o SubSeq(seq, k + 1, Len(seq))

\* the layers without their order values
UnorderedAll(layers) == [j \in 1..Len(layers) |-> Unordered(layers[j])]

\* C21: reorderShaderLayerAtom(layerId, newOrder) on an image with n layers
\* places the layer at array index min(max(newOrder, 0), n-1), keeps the
\* relative order of the other layers and sets every layer's order to its
\* array index; for an unknown image or layer id the images are unchanged.
C21_ReorderPlaces ==
  [][storeReturn'.op = "reorderShaderLayer" =>
       /\ Len(images') = Len(images)
       /\ \A i \in 1..Len(images) :
            LET before == images[i].shaderLayers
                after == images'[i].shaderLayers
                n == Len(before)
                k == findLayer(before, storeReturn'.layerId)
                target ==
                  (IF (IF storeReturn'.value > 0 THEN storeReturn'.value ELSE 0) < n - 1
                     THEN (IF storeReturn'.value > 0 THEN storeReturn'.value ELSE 0)
                     ELSE n - 1) + 1
            IN  IF images[i].id = storeReturn'.imageId /\ k # 0
                  THEN /\ Len(after) = n
                       /\ Unordered(after[target]) = Unordered(before[k])
                       /\ UnorderedAll(Without(after, target)) =
                            UnorderedAll(Without(before, k))
                       /\ \A j \in 1..n : after[j].order = j - 1
                       /\ images'[i] = [images[i] EXCEPT !.shaderLayers = after]
                  ELSE images'[i] = images[i]]_vars

\* the first of three layers has been moved with a newOrder past the end:
\* it is the last one now
C21_Witness ==
  /\ storeReturn.op = "reorderShaderLayer"
  /\ storeReturn.imageId = 2
  /\ storeReturn.layerId = 3
  /\ storeReturn.value = 3
  /\ Len(images) = 1
  /\ Len(images[1].shaderLayers) = 3
  /\ images[1].shaderLayers[1].id = 4
  /\ images[1].shaderLayers[2].id = 5
  /\ images[1].shaderLayers[3].id = 3
  /\ images[1].shaderLayers[3].order = 2


(***************************************************************************)
(* addShaderLayerAtom on the layer lists of one image.                     *)
(***************************************************************************)
\* addShaderLayerAtom with any ShaderType of types/shader.ts, on lists of
\* fewer than MaxLayers layers
AddAnyShaderLayer == AddShaderLayerOf(CoreShaderTypes, MaxLayers + 2)

AddNext == AddAnyShaderLayer

AddSpec == RemoveInit /\ [][AddNext]_vars

\* every id of an image or of a layer in the store
UsedIds(imgs) ==
  { imgs[i].id : i \in 1..Len(imgs) } \cup
  UNION { { imgs[i].shaderLayers[j].id : j \in 1..Len(imgs[i].shaderLayers) } :
          i \in 1..Len(imgs) }

\* C22: addShaderLayerAtom appends to the target image a new enabled layer
\* of the requested type with that type's default properties, a fresh id
\* and order equal to the number of layers the image had before, changes
\* nothing else, and returns that id.
C22_AddAppends ==
  [][(storeReturn'.op = "addShaderLayer"
        /\ findImage(images, storeReturn'.imageId) # 0) =>
       /\ Len(images') = Len(images)
       /\ storeReturn'.value \notin UsedIds(images)
       /\ \A i \in 1..Len(images) :
            IF images[i].id = storeReturn'.imageId
              THEN images'[i] =
                     [images[i] EXCEPT !.shaderLayers =
                        Append(images[i].shaderLayers,
                               [id |-> storeReturn'.value,
                                type |-> storeReturn'.shaderType,
                                enabled |-> TRUE,
                                order |-> Len(images[i].shaderLayers),
                                properties |->
                                  CORE_SHADER_DEFAULTS(storeReturn'.shaderType)])]
              ELSE images'[i] = images[i]]_vars

\* successive adds to an image without layers get the orders 0, 1, 2, ...
C22_SuccessiveOrders ==
  [][(/\ storeReturn.op \in {"none", "addShaderLayer"}
      /\ storeReturn'.op = "addShaderLayer"
      /\ \A i \in 1..Len(images) :
           \A j \in 1..Len(images[i].shaderLayers) :
             images[i].shaderLayers[j].order = j - 1)
       => \A i \in 1..Len(images') :
            \A j \in 1..Len(images'[i].shaderLayers) :
              images'[i].shaderLayers[j].order = j - 1]_vars

\* a contrast layer has been added to an image that had two layers, one of
\* them disabled and with an order of its own
C22_Witness ==
  /\ storeReturn.op = "addShaderLayer"
  /\ storeReturn.shaderType = "contrast"
  /\ storeReturn.value = 5
  /\ Len(images) = 1
  /\ Len(images[1].shaderLayers) = 3
  /\ images[1].shaderLayers[3].id = 5
  /\ images[1].shaderLayers[3].order = 2
  /\ images[1].shaderLayers[3].properties = [value |-> 100]
  /\ images[1].shaderLayers[1].order = 2
  /\ ~images[1].shaderLayers[1].enabled


(***************************************************************************)
(* Calls that name no image or no layer (checked under StoreSpec).         *)
(***************************************************************************)
\* the latest call named an image the store does not have or, for
\* duplicateShaderLayerAtom, a layer that image does not have
NamesNothing(imgs, call) ==
  \/ \A i \in 1..Len(imgs) : imgs[i].id # call.imageId
  \/ /\ call.op = "duplicateShaderLayer"
     /\ \A i \in 1..Len(imgs) :
          imgs[i].id = call.imageId =>
            \A j \in 1..Len(imgs[i].shaderLayers) :
              imgs[i].shaderLayers[j].id # call.layerId

\* C23: addShaderLayerAtom with a non-existent image id and
\* duplicateShaderLayerAtom with a non-existent image or layer id return
\* null and leave all images and their layers unchanged.
C23_NullAndUnchanged ==
  [][(/\ storeReturn'.op \in {"addShaderLayer", "duplicateShaderLayer"}
      /\ NamesNothing(images, storeReturn')) =>
       /\ storeReturn'.value = 0
       /\ images' = images
       /\ generated' = generated]_vars

\* duplicateShaderLayerAtom has been called for an image that has a layer,
\* with the id of no layer
C23_Witness ==
  /\ storeReturn.op = "duplicateShaderLayer"
  /\ storeReturn.value = 0
  /\ \E i \in 1..Len(images) :
       /\ images[i].id = storeReturn.imageId
       /\ Len(images[i].shaderLayers) > 0
       /\ \A j \in 1..Len(images[i].shaderLayers) :
            images[i].shaderLayers[j].id # storeReturn.layerId


(***************************************************************************)
(* duplicateShaderLayerAtom on the layer lists of one image.               *)
(***************************************************************************)
\* duplicateShaderLayerAtom on lists of fewer than MaxLayers layers
DuplicateStoredLayer == DuplicateShaderLayerWithin(MaxLayers + 2)

DuplicateNext == DuplicateStoredLayer

DuplicateSpec == RemoveInit /\ [][DuplicateNext]_vars

\* C24: duplicateShaderLayerAtom appends one layer with the type, enabled
\* flag and properties of the original, an id different from every existing
\* layer id and order equal to the previous layer count; the original and
\* all other layers are unchanged.
C24_DuplicateAppends ==
  [][(storeReturn'.op = "duplicateShaderLayer"
        /\ ~NamesNothing(images, storeReturn')) =>
       /\ Len(images') = Len(images)
       /\ storeReturn'.value \notin UsedIds(images)
       /\ \A i \in 1..Len(images) :
            LET before == images[i].shaderLayers
            IN  IF images[i].id = storeReturn'.imageId
                  THEN \E k \in 1..Len(before) :
                         /\ before[k].id = storeReturn'.layerId
                         /\ images'[i] =
                              [images[i] EXCEPT !.shaderLayers =
                                 Append(before,
                                        [id |-> storeReturn'.value,
                                         type |-> before[k].type,
                                         enabled |-> before[k].enabled,
                                         order |-> Len(before),
                                         properties |-> before[k].properties])]
                  ELSE images'[i] = images[i]]_vars

\* the first of two layers, a disabled invert layer, has been duplicated:
\* the copy is the third layer, disabled, with the order 2
C24_Witness ==
  /\ storeReturn.op = "duplicateShaderLayer"
  /\ storeReturn.layerId = 3
  /\ storeReturn.value = 5
  /\ Len(images) = 1
  /\ Len(images[1].shaderLayers) = 3
  /\ images[1].shaderLayers[1].id = 3
  /\ images[1].shaderLayers[1].type = "invert"
  /\ images[1].shaderLayers[2].type = "brightness"
  /\ images[1].shaderLayers[3].id = 5
  /\ images[1].shaderLayers[3].type = "invert"
  /\ ~images[1].shaderLayers[3].enabled
  /\ images[1].shaderLayers[3].order = 2
  /\ images[1].shaderLayers[1].order = 1


(***************************************************************************)
(* toggleShaderLayerAtom on the layer lists of one image.                  *)
(***************************************************************************)
ToggleNext == ToggleShaderLayer

ToggleSpec == RemoveInit /\ [][ToggleNext]_vars

\* the layers of image i that the call addresses
Addressed(imgs, call, i) ==
  { j \in 1..Len(imgs[i].shaderLayers) :
      /\ imgs[i].id = call.imageId
      /\ imgs[i].shaderLayers[j].id = call.layerId }

\* C25: toggleShaderLayerAtom flips the enabled flag of exactly the
\* addressed layer, and applying it a second time to the same layer
\* restores the image's layer list.
C25_ToggleFlipsOne ==
  [][storeReturn'.op = "toggleShaderLayer" =>
       /\ Len(images') = Len(images)
       /\ \A i \in 1..Len(images) :
            /\ images'[i] =
                 [images[i] EXCEPT !.shaderLayers = images'[i].shaderLayers]
            /\ Len(images'[i].shaderLayers) = Len(images[i].shaderLayers)
            /\ \A j \in 1..Len(images[i].shaderLayers) :
                 images'[i].shaderLayers[j] =
                   IF j \in Addressed(images, storeReturn', i)
                     THEN [images[i].shaderLayers[j] EXCEPT
                             !.enabled = ~images[i].shaderLayers[j].enabled]
                     ELSE images[i].shaderLayers[j]
       /\ toggleShaderLayer(images', storeReturn'.imageId, storeReturn'.layerId)
            = images]_vars

\* the second of three disabled layers has been toggled: it is the only
\* enabled one
C25_Witness ==
  /\ storeReturn.op = "toggleShaderLayer"
  /\ storeReturn.imageId = 2
  /\ storeReturn.layerId = 4
  /\ Len(images) = 1
  /\ Len(images[1].shaderLayers) = 3
  /\ images[1].shaderLayers[2].id = 4
  /\ images[1].shaderLayers[2].enabled
  /\ ~images[1].shaderLayers[1].enabled
  /\ ~images[1].shaderLayers[3].enabled


(***************************************************************************)
(* One call of a store action on a store of two images.                    *)
(***************************************************************************)
\* every image changed, whatever its id
updateEveryImage(imgs, id, changes) ==
  [k \in 1..Len(imgs) |->
     [field \in DOMAIN imgs[k] |->
        IF field \in DOMAIN changes THEN changes[field] ELSE imgs[k][field]]]

\* updateImageAtom: { ...img, ...payload.changes } for the image of that id
updateImage(imgs, id, changes) ==
  [k \in 1..Len(imgs) |->
     IF imgs[k].id = id
       THEN [field \in DOMAIN imgs[k] |->
               IF field \in DOMAIN changes THEN changes[field]
               ELSE imgs[k][field]]
       ELSE imgs[k]]

\* the changes updateImageAtom is called with
ImageChanges ==
  { [visible |-> FALSE], [locked |-> TRUE, zIndex |-> 5] }

UpdateImage ==
  \E id \in ImageIds, changes \in ImageChanges :
    SetStore(updateImage(images, id, changes), generated,
             StoreCall("updateImage", id, 0, 0))

\* a store of two images, the first with two layers and the second with one
FrameStores ==
  { [k \in 1..2 |->
       [addImage(addImage(<<>>, 2), 3)[k] EXCEPT
          !.shaderLayers = IF k = 1 THEN <<a, b>> ELSE <<c>>]] :
      a \in { l \in StoredLayers(4) : l.type = "brightness" },
      b \in { l \in StoredLayers(5) : l.type = "brightness" },
      c \in { l \in StoredLayers(6) : l.type = "brightness" } }

FrameInit ==
  /\ images \in FrameStores
  /\ generated = 6
  /\ storeReturn = NoStoreCall
  /\ selectedImageIds = <<>>
  /\ InteractionIdle
  /\ RestIdle
  /\ PureIdle

\* one call of an action on the store as drawn
FirstCall(action) == storeReturn = NoStoreCall /\ action

FrameAdd == FirstCall(AddShaderLayerOf(StoreTypes, generated + 1))

FrameRemove == FirstCall(RemoveShaderLayer)

FrameUpdate == FirstCall(UpdateShaderLayer)

FrameToggle == FirstCall(ToggleShaderLayer)

FrameReorder == FirstCall(ReorderShaderLayer)

FrameClear == FirstCall(ClearShaderLayers)

FrameDuplicate == FirstCall(DuplicateShaderLayerWithin(generated + 1))

FrameUpdateImage == FirstCall(UpdateImage)

FrameNext ==
  \/ FrameAdd
  \/ FrameRemove
  \/ FrameUpdate
  \/ FrameToggle
  \/ FrameReorder
  \/ FrameClear
  \/ FrameDuplicate
  \/ FrameUpdateImage

FrameSpec == FrameInit /\ [][FrameNext]_vars

\* C26: every shader-layer action and updateImageAtom addressed to one
\* image leaves all other images unchanged, and updateShaderLayerAtom and
\* toggleShaderLayerAtom leave all other layers of the addressed image
\* unchanged.
C26_OthersUnchanged ==
  [][storeReturn'.op \in
       {"addShaderLayer", "removeShaderLayer", "updateShaderLayer",
        "toggleShaderLayer", "reorderShaderLayer", "clearShaderLayers",
        "duplicateShaderLayer", "updateImage"} =>
       /\ Len(images') = Len(images)
       /\ \A i \in 1..Len(images) :
            /\ images[i].id # storeReturn'.imageId => images'[i] = images[i]
            /\ storeReturn'.op \in {"updateShaderLayer", "toggleShaderLayer"} =>
                 /\ Len(images'[i].shaderLayers) = Len(images[i].shaderLayers)
                 /\ \A j \in 1..Len(images[i].shaderLayers) :
                      images[i].shaderLayers[j].id # storeReturn'.layerId =>
                        images'[i].shaderLayers[j] = images[i].shaderLayers[j]]_vars

\* updateImageAtom has changed the second of two images that have layers,
\* and the first one is not changed
C26_Witness ==
  /\ storeReturn.op = "updateImage"
  /\ storeReturn.imageId = 3
  /\ Len(images) = 2
  /\ images[2].locked
  /\ images[2].zIndex = 5
  /\ ~images[1].locked
  /\ images[1].zIndex = 1
  /\ Len(images[1].shaderLayers) = 2


(***************************************************************************)
(* The images and the selection of canvasStateAtom: addImageAtom,          *)
(* removeImageAtom and the actions of selection-atom.ts.                   *)
(***************************************************************************)
SetCanvas(imgs, selected, n, call) ==
  /\ images' = imgs
  /\ selectedImageIds' = selected
  /\ generated' = n
  /\ storeReturn' = call
  /\ UNCHANGED <<interactionVars, compositorVars, hookVars, pureVars, glVars>>

\* array.includes(id)
includes(array, id) == \E i \in 1..Len(array) : array[i] = id

\* the images kept, the selection emptied
removeImageAndDeselect(imgs, selected, imageId) ==
  [images |-> SelectSeq(imgs, LAMBDA img : img.id # imageId),
   selectedImageIds |-> <<>>]

\* removeImageAtom: the images and the selection it leaves
removeImage(imgs, selected, imageId) ==
  [images |-> SelectSeq(imgs, LAMBDA img : img.id # imageId),
   selectedImageIds |-> SelectSeq(selected, LAMBDA id : id # imageId)]

\* toggleSelectionAtom
toggleSelection(selected, imageId) ==
  IF includes(selected, imageId)
    THEN SelectSeq(selected, LAMBDA id : id # imageId)
    ELSE Append(selected, imageId)

\* the id appended whether or not it is selected
appendToSelection(selected, imageId) == Append(selected, imageId)

\* addToSelectionAtom
addToSelection(selected, imageId) ==
  IF ~includes(selected, imageId) THEN Append(selected, imageId) ELSE selected

\* selectAllAtom
selectAll(imgs) == [i \in 1..Len(imgs) |-> imgs[i].id]

\* deleteSelectedAtom
deleteSelected(imgs, selected) ==
  [images |-> SelectSeq(imgs, LAMBDA img : ~includes(selected, img.id)),
   selectedImageIds |-> <<>>]

RemoveImage ==
  \E imageId \in ImageIds :
    LET out == removeImage(images, selectedImageIds, imageId)
    IN  SetCanvas(out.images, out.selectedImageIds, generated,
                  StoreCall("removeImage", imageId, 0, 0))

\* selectImageAtom with an id
SelectImage ==
  \E imageId \in ImageIds :
    SetCanvas(images, <<imageId>>, generated,
              StoreCall("selectImage", imageId, 0, 0))

ToggleSelection ==
  \E imageId \in ImageIds :
    SetCanvas(images, toggleSelection(selectedImageIds, imageId), generated,
              StoreCall("toggleSelection", imageId, 0, 0))

AddToSelection ==
  \E imageId \in ImageIds :
    SetCanvas(images, addToSelection(selectedImageIds, imageId), generated,
              StoreCall("addToSelection", imageId, 0, 0))

\* clearSelectionAtom, and selectImageAtom with null
ClearSelection ==
  SetCanvas(images, <<>>, generated, StoreCall("clearSelection", 0, 0, 0))

SelectAll ==
  SetCanvas(images, selectAll(images), generated, StoreCall("selectAll", 0, 0, 0))

DeleteSelected ==
  LET out == deleteSelected(images, selectedImageIds)
  IN  SetCanvas(out.images, out.selectedImageIds, generated,
                StoreCall("deleteSelected", 0, 0, 0))

ImageNext ==
  \/ AddImage
  \/ RemoveImage
  \/ SelectImage
  \/ ToggleSelection
  \/ AddToSelection
  \/ ClearSelection
  \/ SelectAll
  \/ DeleteSelected

ImageSpec == StoreInit /\ [][ImageNext]_vars

\* C27: removeImageAtom(id) removes exactly the image with that id and
\* removes id from the selection, leaving all other images and selected
\* ids unchanged, in their order; for an id that matches no image the image
\* list is unchanged.
C27_RemoveImageOnly ==
  [][storeReturn'.op = "removeImage" =>
       LET kept == { i \in 1..Len(images) : images[i].id # storeReturn'.imageId }
           keptIds == { i \in 1..Len(selectedImageIds) :
                          selectedImageIds[i] # storeReturn'.imageId }
       IN  /\ Len(images') = Cardinality(kept)
           /\ \A i \in kept :
                images'[Cardinality({ j \in kept : j <= i })] = images[i]
           /\ Len(selectedImageIds') = Cardinality(keptIds)
           /\ \A i \in keptIds :
                selectedImageIds'[Cardinality({ j \in keptIds : j <= i })] =
                  selectedImageIds[i]
           /\ kept = 1..Len(images) => images' = images]_vars

\* the first of two selected images has been removed: the second one is
\* left, and it is the only selected one
C27_Witness ==
  /\ storeReturn.op = "removeImage"
  /\ storeReturn.imageId = 2
  /\ Len(images) = 1
  /\ images[1].id = 3
  /\ selectedImageIds = <<3>>


(***************************************************************************)
(* The z-index: one call of addImageAtom, bringToFrontAtom or              *)
(* sendToBackAtom on a store of images with any z-indices.                 *)
(***************************************************************************)
\* bringToFrontAtom
bringToFront(imgs, imageId) ==
  LET maxZ == getNextZIndex(imgs)
  IN  [k \in 1..Len(imgs) |->
         IF imgs[k].id = imageId THEN [imgs[k] EXCEPT !.zIndex = maxZ]
         ELSE imgs[k]]

\* the target given the lowest z-index in use
sendToBackLevel(imgs, imageId) ==
  IF Len(imgs) = 0 THEN imgs
  ELSE
    LET minZ ==
          CHOOSE z \in { imgs[i].zIndex : i \in 1..Len(imgs) } :
            \A i \in 1..Len(imgs) : z <= imgs[i].zIndex
    IN  [k \in 1..Len(imgs) |->
           IF imgs[k].id = imageId THEN [imgs[k] EXCEPT !.zIndex = minZ]
           ELSE imgs[k]]

\* sendToBackAtom; without images Math.min() is Infinity and nothing is
\* mapped
sendToBack(imgs, imageId) ==
  IF Len(imgs) = 0 THEN imgs
  ELSE
    LET minZ ==
          (CHOOSE z \in { imgs[i].zIndex : i \in 1..Len(imgs) } :
             \A i \in 1..Len(imgs) : z <= imgs[i].zIndex) - 1
    IN  [k \in 1..Len(imgs) |->
           IF imgs[k].id = imageId THEN [imgs[k] EXCEPT !.zIndex = minZ]
           ELSE imgs[k]]

BringToFront ==
  \E imageId \in ImageIds :
    SetStore(bringToFront(images, imageId), generated,
             StoreCall("bringToFront", imageId, 0, 0))

SendToBack ==
  \E imageId \in ImageIds :
    SetStore(sendToBack(images, imageId), generated,
             StoreCall("sendToBack", imageId, 0, 0))

\* the z-indices the images are drawn with
ZValues == -2..3

\* the stores of up to MaxImages images, with the ids generateId returned
\* for them and any z-indices
ZStores ==
  UNION { { [k \in 1..n |-> [addImage(<<>>, k + 1)[1] EXCEPT !.zIndex = z[k]]] :
              z \in [1..n -> ZValues] } : n \in 0..MaxImages }

ZInit ==
  /\ \E imgs \in ZStores :
       /\ images = imgs
       /\ generated = Len(imgs) + 1
  /\ storeReturn = NoStoreCall
  /\ selectedImageIds = <<>>
  /\ InteractionIdle
  /\ RestIdle
  /\ PureIdle

ZAddImage == FirstCall(AddImage)

ZBringToFront == FirstCall(BringToFront)

ZSendToBack == FirstCall(SendToBack)

ZNext == ZAddImage \/ ZBringToFront \/ ZSendToBack

ZSpec == ZInit /\ [][ZNext]_vars

SamplesImage(k) == last.passes[k].texture.kind = "imageTexture"

\* the texture executed pass k samples is a ping-pong buffer texture
SamplesPingPong(k) == last.passes[k].texture.kind = "framebufferTexture"

\* C29: in every executed pass of every composite, also one in which the
\* program of an earlier layer failed, u_flipY is true exactly when the
\* pass samples the source-image texture and false exactly when it samples
\* a ping-pong buffer texture.
C29_FlipFollowsInput ==
  Composite =>
    \A k \in 1..Len(last.passes) :
      /\ last.passes[k].flipY <=> SamplesImage(k)
      /\ ~last.passes[k].flipY <=> SamplesPingPong(k)

\* the flag follows the pass index, so it agrees with the sampled texture
\* when no program failed and both framebuffers exist
C29_FlipFollowsInputHealthy ==
  (Composite /\ last.skipped = {}
     /\ pingPong.framebuffers[0].exists /\ pingPong.framebuffers[1].exists)
  => C29_FlipFollowsInput

\* a composite whose first layer was skipped: a later pass samples the
\* source image without the flip
C29_UnflippedImage ==
  /\ Composite
  /\ 0 \in last.skipped
  /\ \E k \in 1..Len(last.passes) : SamplesImage(k) /\ ~last.passes[k].flipY

\* in a composite of two or more passes with all programs and both
\* framebuffers the first pass flips the image and the later ones do not
C29_HealthyWitness ==
  /\ Composite /\ last.skipped = {} /\ Len(last.passes) >= 2
  /\ pingPong.framebuffers[0].exists /\ pingPong.framebuffers[1].exists
  /\ SamplesImage(1) /\ last.passes[1].flipY
  /\ SamplesPingPong(2) /\ ~last.passes[2].flipY

(***************************************************************************)
(* The ping-pong pair behind the intermediate passes of render.            *)
(***************************************************************************)
\* executed passes of the latest render that are not the last pass
IntermediatePasses == {k \in 1..Len(last.passes) : ~last.passes[k].isLastPass}

\* both framebuffers exist and were created at the compositor's size
PairAtCurrentSize ==
  \A i \in 0..1 :
    /\ pingPong.framebuffers[i].exists
    /\ pingPong.framebuffers[i].width = width
    /\ pingPong.framebuffers[i].height = height

\* C30: whenever render executes a non-last pass, both ping-pong
\* framebuffers exist and were created at the compositor's current
\* (width, height); an intermediate pass never binds the null framebuffer
\* as its output and no pass samples a missing texture, for every sequence
\* of resize and render calls.
C30_IntermediateHasBuffers ==
  (Composite /\ IntermediatePasses # {}) =>
    /\ PairAtCurrentSize
    /\ \A k \in IntermediatePasses : last.passes[k].framebuffer.kind = "framebuffer"
    /\ \A k \in 1..Len(last.passes) : last.passes[k].texture # NullHandle

\* the framebuffers that exist are always of the compositor's size, and
\* with both present no intermediate pass touches the destination or
\* samples a missing texture
C30_ExistingAtCurrentSize ==
  /\ \A i \in 0..1 : pingPong.framebuffers[i].exists =>
       /\ pingPong.framebuffers[i].width = width
       /\ pingPong.framebuffers[i].height = height
  /\ (pingPong.framebuffers[0].exists /\ pingPong.framebuffers[1].exists)
       => C30_IntermediateHasBuffers

\* an intermediate pass drawn into the destination
C30_IntermediateToDestination ==
  /\ Composite
  /\ \E k \in IntermediatePasses : last.passes[k].framebuffer = NullHandle

\* an intermediate pass rendered into an existing pair of the current size
C30_HealthyWitness ==
  /\ Composite /\ IntermediatePasses # {} /\ PairAtCurrentSize
  /\ width > 0 /\ height > 0

(***************************************************************************)
(* SizeSpec: a mounted hook asked for the rasters of one source under two  *)
(* layer lists at every size, while the image is loading and after.        *)
(***************************************************************************)
SizeImages == { [src |-> <<"a">>, complete |-> c] : c \in BOOLEAN }

SizeLayerLists ==
  { <<RenderLayer(1, TRUE, 0)>>,
    <<RenderLayer(1, TRUE, 0), RenderLayer(2, TRUE, 1)>> }

SizeInputs ==
  { [image |-> image, layers |-> layers, width |-> w, height |-> ht] :
      image \in SizeImages, layers \in SizeLayerLists,
      w \in Widths, ht \in Heights }

SizeRequest == Request(SizeInputs, MaxPuts)

SizeNext == SizeRequest

SizeSpec == FillInit /\ [][SizeNext]_vars

\* the call answered by this step asked for a fingerprint that is stored
\* with other dimensions
HitOtherDimensions ==
  /\ returned'.op = "getProcessedImage"
  /\ returned'.key # <<>>
  /\ MapHas(processedCache, returned'.key)
  /\ \/ MapGet(processedCache, returned'.key).width # returned'.width
     \/ MapGet(processedCache, returned'.key).height # returned'.height

\* the call answered by this step composited at the requested size and
\* stored the raster under its fingerprint
Recomposited ==
  /\ returned'.result = "processed"
  /\ width' = returned'.width /\ height' = returned'.height
  /\ last'.status # "none"
  /\ MapHas(processedCache', returned'.key)
  /\ MapGet(processedCache', returned'.key).width = returned'.width
  /\ MapGet(processedCache', returned'.key).height = returned'.height

\* a call answered from the cache returns a raster of the requested size
ReturnsRequestedSize ==
  (returned'.op = "getProcessedImage" /\ returned'.result = "cached") =>
     /\ MapHas(processedCache, returned'.key)
     /\ MapGet(processedCache, returned'.key).width = returned'.width
     /\ MapGet(processedCache, returned'.key).height = returned'.height

\* C31: getProcessedImage never returns a cached raster whose stored width
\* or height differs from the requested ones; on a fingerprint hit with
\* different dimensions it composites again at the requested size and
\* stores the new raster under the same fingerprint.
C31_RecompositesOnMismatch ==
  [][ReturnsRequestedSize /\ (HitOtherDimensions => Recomposited)]_vars

\* C31 as the hook keeps it: the raster is composited again when the image
\* has finished loading; otherwise the source image is returned and the
\* cache keeps the raster of the other size
C31_RecompositesWhenLoaded ==
  [][/\ ReturnsRequestedSize
     /\ HitOtherDimensions =>
          /\ returned'.complete => Recomposited
          /\ ~returned'.complete =>
               /\ returned'.result = "image"
               /\ processedCache' = processedCache
               /\ UNCHANGED compositorVars]_vars

\* the latest call composited again for the fingerprint that was stored
\* first, after a second fingerprint had been stored: the first raster has
\* been replaced in place by one of the requested size
C31_Witness ==
  /\ returned.op = "getProcessedImage"
  /\ returned.result = "processed"
  /\ returned.complete
  /\ Len(processedCache) = 2
  /\ processedCache[1].key = returned.key
  /\ processedCache[1].width = returned.width
  /\ processedCache[1].height = returned.height
  /\ width = returned.width

(***************************************************************************)
(* PassSpec: the layer list of one image under the store actions, against  *)
(* the list it started from: their fingerprints and their pass lists.      *)
(***************************************************************************)
\* two brightness layers as addShaderLayerAtom made them (ids 3 and 4,
\* orders 0 and 1), each with its default value or a value of 20
PassStores ==
  { <<[addImage(<<>>, 2)[1] EXCEPT !.shaderLayers =
         <<[createCoreShaderLayer("brightness", 3, 0) EXCEPT !.properties.value = a],
           [createCoreShaderLayer("brightness", 4, 1) EXCEPT !.properties.value = b]>>]>> :
      a \in {0, 20}, b \in {0, 20} }

\* the changes updateShaderLayerAtom is called with here
PassChanges == { [order |-> 2], [properties |-> [value |-> 20]] }

PassInit ==
  /\ images \in PassStores
  /\ generated = 4
  /\ storeReturn = NoStoreCall
  /\ selectedImageIds = <<>>
  /\ InteractionIdle
  /\ arg = images[1].shaderLayers
  /\ ret = <<>>
  /\ phase = "lists"
  /\ RestIdle

PassUpdate ==
  \E layerId \in LayerIds, changes \in PassChanges :
    SetStore(updateShaderLayer(images, 2, layerId, changes), generated,
             StoreCall("updateShaderLayer", 2, layerId, 0))

PassToggle ==
  \E layerId \in LayerIds :
    SetStore(toggleShaderLayer(images, 2, layerId), generated,
             StoreCall("toggleShaderLayer", 2, layerId, 0))

PassReorder ==
  \E layerId \in LayerIds, newOrder \in 0..1 :
    SetStore(reorderShaderLayer(images, 2, layerId, newOrder), generated,
             StoreCall("reorderShaderLayer", 2, layerId, newOrder))

PassRemove ==
  \E layerId \in LayerIds :
    SetStore(removeShaderLayer(images, 2, layerId), generated,
             StoreCall("removeShaderLayer", 2, layerId, 0))

PassNext == PassUpdate \/ PassToggle \/ PassReorder \/ PassRemove

PassSpec == PassInit /\ [][PassNext]_vars

\* the list of an image as the canvas hands it to getProcessedImage
Rendered(layers) ==
  [k \in 1..Len(layers) |-> [layers[k] EXCEPT !.id = LayerId(layers[k].id)]]

\* the passes a composite of the list runs: layer, program and uniforms of
\* each, in execution order
PassList(layers) ==
  LET active == activeLayersOf(enabledLayers(Rendered(layers)))
  IN  [k \in 1..Len(active) |->
         [layer |-> active[k].id, type |-> active[k].type,
          properties |-> active[k].properties]]

SameFingerprint(a, b) ==
  getCacheKey(<<"a">>, Rendered(a)) = getCacheKey(<<"a">>, Rendered(b))

\* the order fields ascend along the array
ArrayOrdered(layers) ==
  \A i \in 1..Len(layers), j \in 1..Len(layers) :
    i < j => layers[i].order < layers[j].order

\* C32: two layer lists of the same source with the same fingerprint have
\* the same ordered list of active passes, for all lists the store actions
\* reach, updateShaderLayerAtom changing `order` included.
C32_SameKeySamePasses ==
  SameFingerprint(arg, images[1].shaderLayers)
    => PassList(arg) = PassList(images[1].shaderLayers)

\* it holds between lists whose order fields ascend along the array
C32_SameKeySamePassesOrdered ==
  (ArrayOrdered(arg) /\ ArrayOrdered(images[1].shaderLayers))
    => C32_SameKeySamePasses

\* the same fingerprint for a list whose passes run in the opposite order
C32_StaleOrder ==
  /\ SameFingerprint(arg, images[1].shaderLayers)
  /\ Len(PassList(arg)) = 2
  /\ Len(PassList(images[1].shaderLayers)) = 2
  /\ PassList(arg)[1] = PassList(images[1].shaderLayers)[2]
  /\ PassList(arg)[1] # PassList(images[1].shaderLayers)[1]

(***************************************************************************)
(* ResourceSpec: one ShaderCompositor, handle by handle, under resize,     *)
(* render and dispose.                                                     *)
(***************************************************************************)
\* objects created per behaviour of ResourceSpec
MaxResourceObjects == 12

\* QuadRenderer.init(): createQuadBuffer and gl.createVertexArray
quadRendererInit(g, bufferOk, vaoOk) ==
  LET g1 == IF bufferOk THEN glCreate(g, "buffer") ELSE g
      g2 == IF vaoOk THEN glCreate(g1, "vertexArray") ELSE g1
  IN  [quad |-> [buffer |-> IF bufferOk THEN NextObject(g, "buffer") ELSE NoObject,
                 vao |-> IF vaoOk THEN NextObject(g1, "vertexArray") ELSE NoObject],
       gl |-> g2]

\* QuadRenderer.dispose()
quadRendererDispose(q, g) ==
  [quad |-> NoQuadRenderer, gl |-> glDelete(glDelete(g, q.buffer), q.vao)]

\* the components of a compositor and the context they share
Resources ==
  [manager |-> programManager, cache |-> textureCache, buffer |-> pingPongBuffer,
   quad |-> quadRenderer, gl |-> glObjects]

SetResources(r, call) ==
  /\ programManager' = r.manager
  /\ textureCache' = r.cache
  /\ pingPongBuffer' = r.buffer
  /\ quadRenderer' = r.quad
  /\ glObjects' = r.gl
  /\ glReturn' = call
  /\ UNCHANGED <<compositorVars, hookVars, pureVars, storeVars>>

\* ShaderCompositor.resize(width, height): the compositor's width and
\* height are those of its PingPongBuffer
resourceResize(r, w, h, o0, o1) ==
  LET out == bufferResize(r.buffer, r.gl, w, h, o0, o1)
  IN  [r EXCEPT !.buffer = out.buffer, !.gl = out.gl]

RECURSIVE resourcePrograms(_, _, _)
\* the getProgram calls of the pass loop, one per active layer
resourcePrograms(r, keys, outcomes) ==
  IF keys = <<>> THEN r
  ELSE LET o == Head(outcomes)
           out == managerGetProgram(r.manager, r.gl, Head(keys), o[1], o[2], o[3])
       IN  resourcePrograms([r EXCEPT !.manager = out.manager, !.gl = out.gl],
                            Tail(keys), Tail(outcomes))

\* ShaderCompositor.render(image, layers) for the program keys of a
\* non-empty active list
resourceRender(r, url, keys, created, outcomes) ==
  LET tex == cacheGetTexture(r.cache, r.gl, url, created)
      sized == bufferResize(r.buffer, tex.gl, r.buffer.width, r.buffer.height,
                            "ok", "ok")
  IN  IF tex.return.value = NoObject
      THEN [r EXCEPT !.cache = tex.cache, !.gl = tex.gl]
      ELSE resourcePrograms([r EXCEPT !.cache = tex.cache, !.buffer = sized.buffer,
                                      !.gl = sized.gl],
                            keys, outcomes)

\* ShaderCompositor.dispose()
resourceDispose(r) ==
  LET m == managerDispose(r.manager, r.gl)
      t == cacheDispose(r.cache, m.gl)
      b == bufferDispose(r.buffer, t.gl)
      q == quadRendererDispose(r.quad, b.gl)
  IN  [manager |-> m.manager, cache |-> t.cache, buffer |-> b.buffer,
       quad |-> q.quad, gl |-> q.gl]

ResourceCall(op) == [op |-> op, key |-> <<>>, value |-> NoObject, created |-> FALSE]

\* new ShaderCompositor(gl)
ResourceInit ==
  /\ programManager = ProgramManagerInit
  /\ textureCache = TextureCacheInit
  /\ pingPongBuffer = PingPongBufferInit
  /\ \E bufferOk \in BOOLEAN, vaoOk \in BOOLEAN :
       LET made == quadRendererInit(GlInit, bufferOk, vaoOk)
       IN  quadRenderer = made.quad /\ glObjects = made.gl
  /\ glReturn = NoGlCall
  /\ width = 0
  /\ height = 0
  /\ pingPong = PingPongInit
  /\ programs = {}
  /\ textures = {}
  /\ quad = QuadInit(TRUE, TRUE)
  /\ last = NoRender
  /\ HookUnmounted
  /\ StoreIdle
  /\ PureIdle

\* the sizes resize is called with
ResourceSizes == { <<1, 1>>, <<2, 1>> }

\* the program keys of the active lists rendered
ResourceKeyLists == { <<"brightness">>, <<"brightness", "invert">> }

\* what createProgram does when the pass loop reaches it for a key
ResourceOutcomes ==
  { <<"ok", "ok", "ok">>, <<"ok", "compileError", "ok">>, <<"ok", "ok", "linkError">> }

ResourceResize ==
  \E size \in ResourceSizes :
    LET w == size[1]
        h == size[2]
    IN  /\ (pingPongBuffer.width # w \/ pingPongBuffer.height # h) =>
             glObjects.next + 3 <= MaxResourceObjects
        /\ \E o0 \in CreateFramebufferOutcomes(w, h),
              o1 \in CreateFramebufferOutcomes(w, h) :
             SetResources(resourceResize(Resources, w, h, o0, o1),
                          ResourceCall("resize"))

ResourceRender ==
  /\ glObjects.next + 6 <= MaxResourceObjects
  /\ \E keys \in ResourceKeyLists, created \in BOOLEAN :
       \E outcomes \in [1..Len(keys) -> ResourceOutcomes] :
         SetResources(resourceRender(Resources, <<"a">>, keys, created, outcomes),
                      ResourceCall("render"))

ResourceDispose ==
  SetResources(resourceDispose(Resources), ResourceCall("dispose"))

ResourceNext == ResourceResize \/ ResourceRender \/ ResourceDispose

ResourceSpec == ResourceInit /\ [][ResourceNext]_vars

\* the objects of a kind that exist
Live(kind) == {o \in glObjects.live : o.kind = kind}

\* the objects the components of the compositor hold
Held ==
  ObjectsOf(pingPongBuffer)
  \cup { programManager.programs[k].program : k \in 1..Len(programManager.programs) }
  \cup { textureCache.textures[k].texture : k \in 1..Len(textureCache.textures) }
  \cup ({quadRenderer.buffer, quadRenderer.vao} \ {NoObject})

\* the kinds of object a compositor keeps
KeptKinds == {"program", "texture", "framebuffer", "buffer", "vertexArray"}

\* C33: over any sequence of resize, render and dispose calls no object is
\* deleted twice, every live framebuffer and framebuffer texture is one the
\* PingPongBuffer holds (none is leaked), at most two framebuffers are live,
\* and after ShaderCompositor.dispose() no program, source texture,
\* framebuffer, framebuffer texture, quad buffer or vertex array is live.
C33_NoLeakNoDoubleDelete ==
  /\ glObjects.deletedTwice = {}
  /\ Cardinality(Live("framebuffer")) <= 2
  /\ \A o \in glObjects.live : o.kind \in KeptKinds => o \in Held
  /\ Held \subseteq glObjects.live
  /\ glReturn.op = "dispose" =>
       /\ \A o \in glObjects.live : o.kind \notin KeptKinds
       /\ Held = {}

\* a dispose that deleted two framebuffers with their textures, a source
\* texture, a program, the quad buffer and the vertex array
C33_Witness ==
  /\ glReturn.op = "dispose"
  /\ \A kind \in {"program", "framebuffer", "buffer", "vertexArray"} :
       \E o \in glObjects.deleted : o.kind = kind
  /\ Cardinality({o \in glObjects.deleted : o.kind = "framebuffer"}) >= 2
  /\ Cardinality({o \in glObjects.deleted : o.kind = "texture"}) >= 3

(***************************************************************************)
(* What a createProgram call leaves in the context (checked under          *)
(* ProgramSpec).                                                           *)
(***************************************************************************)
\* the objects created during this step that are live after it
LeftBehind == {o \in glObjects'.live : o.id >= glObjects.next}

\* this step is a getProgram call that reached createProgram
CreateProgramCalled == glReturn'.op = "getProgram" /\ glReturn'.created

\* C34: createProgram leaves no GPU object behind on failure: whenever it
\* returns null every shader object and program object it created has
\* been deleted; on success both shader objects are deleted and only the
\* program remains.
C34_NothingLeftOnFailure ==
  [][CreateProgramCalled =>
       IF glReturn'.value = NoObject
       THEN LeftBehind = {}
       ELSE LeftBehind = {glReturn'.value}]_vars

\* what createProgram does leave: never a program object on failure, and
\* never a shader on success; the shaders that compiled stay when it
\* returns null
C34_ShadersLeftOnFailure ==
  [][CreateProgramCalled =>
       IF glReturn'.value = NoObject
       THEN \A o \in LeftBehind : o.kind \in {"vertexShader", "fragmentShader"}
       ELSE LeftBehind = {glReturn'.value}]_vars

\* a failed getProgram call after which a shader it compiled is live
C34_LeakedShader ==
  /\ glReturn.op = "getProgram"
  /\ glReturn.created
  /\ glReturn.value = NoObject
  /\ \E o \in glObjects.live : o.kind = "vertexShader"

(***************************************************************************)
(* The length of the pass loop of render (checked under Spec).             *)
(***************************************************************************)
\* the swaps the latest render made
SwapCount ==
  Cardinality({k \in 1..Len(last.pingPongCalls) : last.pingPongCalls[k] = "swap"})

\* the loop of the latest composite ran once per active layer, each
\* iteration was a skipped layer or one executed pass of 6 vertices, and
\* the pair was swapped once per executed pass that is not the last
LoopBounded ==
  LET n == Len(last.activeLayers)
  IN  /\ Len(last.passes) + Cardinality(last.skipped) = n
      /\ \A k \in 1..Len(last.passes) : PassIndex(k) \notin last.skipped
      /\ DrawCount <= n
      /\ \A k \in 1..Len(last.passes) : last.passes[k].vertices = 6
      /\ SwapCount = Cardinality(IntermediatePasses)
      /\ pingPong.currentIndex = Cardinality(IntermediatePasses) % 2
      /\ \A k \in 1..Len(last.passes) :
           last.passes[k].isLastPass => k = Len(last.passes)

\* C35: render terminates: for n active layers it runs exactly n loop
\* iterations, issues at most n draws, exactly n when every program is
\* available, each of exactly 6 vertices, swaps the ping-pong pair exactly
\* once after each executed non-last pass and never after the last pass,
\* and creates or deletes no quad buffer or vertex array.
C35_LoopRunsToCompletion ==
  [][last'.status = "composite" =>
       /\ LoopBounded'
       /\ (last'.skipped = {} => DrawCount' = Len(last'.activeLayers))
       /\ quad' = quad]_vars

\* C35 with the draws the code issues: every executed pass issues its draw
\* when the quad vertex array exists, and none does without it
C35_LoopRunsToCompletionWithVao ==
  [][last'.status = "composite" =>
       /\ LoopBounded'
       /\ ((last'.skipped = {} /\ quad.vao) => DrawCount' = Len(last'.activeLayers))
       /\ (~quad.vao => DrawCount' = 0)
       /\ quad' = quad]_vars

\* a composite of three passes with every program and the vertex array:
\* three draws and two swaps
C35_Witness ==
  /\ Composite
  /\ Len(last.activeLayers) = 3
  /\ last.skipped = {}
  /\ quad.vao
  /\ DrawCount = 3
  /\ SwapCount = 2

(***************************************************************************)
(* Replacing the raster of a stored fingerprint (checked under FillSpec).  *)
(***************************************************************************)
\* the entries other than the one of the call's fingerprint are where and
\* what they were, and the call's entry is in the place it had
OnlyThatEntryReplaced ==
  /\ Len(processedCache') = Len(processedCache)
  /\ \A k \in 1..Len(processedCache) :
       /\ processedCache'[k].key = processedCache[k].key
       /\ processedCache[k].key # returned'.key =>
            processedCache'[k] = processedCache[k]

\* C36: when getProcessedImage composites again for a fingerprint that is
\* already in the result cache (dimension change), it replaces only that
\* entry: no other entry is removed and the number of entries stays.
C36_ReplacesInPlace ==
  [][(HitOtherDimensions /\ returned'.result = "processed")
       => OnlyThatEntryReplaced]_vars

\* it holds while the cache is within its limit
C36_ReplacesInPlaceWithinLimit ==
  [][(HitOtherDimensions /\ returned'.result = "processed"
        /\ Len(processedCache) <= CacheLimit)
       => OnlyThatEntryReplaced]_vars

\* a stored fingerprint asked for at another size with 51 entries in the
\* cache: 50 entries are left and the oldest is gone
C36_ReplaceEvicted ==
  /\ returned.op = "getProcessedImage"
  /\ returned.result = "processed"
  /\ Len(processedCache) = CacheLimit
  /\ clock = CacheLimit + 1
  /\ processedCache[1].insertedAt = 2

(***************************************************************************)
(* SelectionSpec: the image and selection atoms called with the ids of     *)
(* images that exist at the time of the call.                              *)
(***************************************************************************)
\* the action, called with the id of an image of the canvas
OfExisting(action) ==
  /\ action
  /\ \E i \in 1..Len(images) : images[i].id = storeReturn'.imageId

ExistingRemoveImage == OfExisting(RemoveImage)

ExistingSelectImage == OfExisting(SelectImage)

ExistingToggleSelection == OfExisting(ToggleSelection)

ExistingAddToSelection == OfExisting(AddToSelection)

SelectionNext ==
  \/ AddImage
  \/ ExistingRemoveImage
  \/ ExistingSelectImage
  \/ ExistingToggleSelection
  \/ ExistingAddToSelection
  \/ ClearSelection
  \/ SelectAll
  \/ DeleteSelected

SelectionSpec == StoreInit /\ [][SelectionNext]_vars

\* C37: after any sequence of addImage, removeImage, deleteSelected,
\* selectAll, clearSelection and select/toggle/addToSelection calls given
\* ids of images that exist at call time, every id in selectedImageIds is
\* the id of an image of the canvas and no id appears twice.
C37_SelectionOfExisting ==
  /\ \A i \in 1..Len(selectedImageIds) :
       \E k \in 1..Len(images) : images[k].id = selectedImageIds[i]
  /\ \A i \in 1..Len(selectedImageIds), j \in 1..Len(selectedImageIds) :
       selectedImageIds[i] = selectedImageIds[j] => i = j

\* one of two images removed while the other one stays selected
C37_Witness ==
  /\ storeReturn.op = "removeImage"
  /\ generated = 3
  /\ Len(images) = 1
  /\ selectedImageIds = <<images[1].id>>

(***************************************************************************)
(* StackSpec: the z-indices of the canvas under addImage, removeImage,     *)
(* bringToFront and sendToBack, from the empty canvas.                     *)
(***************************************************************************)
\* the z-indices followed: calls that would leave -MaxZ..MaxZ are not made
MaxZ == 4

WithinZ(action) ==
  /\ action
  /\ \A i \in 1..Len(images') : images'[i].zIndex \in -MaxZ..MaxZ

StackAddImage == WithinZ(AddImage)

StackRemoveImage == WithinZ(RemoveImage)

StackBringToFront == WithinZ(BringToFront)

StackSendToBack == WithinZ(SendToBack)

StackNext ==
  StackAddImage \/ StackRemoveImage \/ StackBringToFront \/ StackSendToBack

StackSpec == StoreInit /\ [][StackNext]_vars

HitHandles == {"top-left"}

\* the screen points of the events
Points == {1}

\* getHandleCursor
getHandleCursor(handle) ==
  CASE handle \in {"top-left", "bottom-right"} -> "nwse-resize"
    [] handle \in {"top-right", "bottom-left"} -> "nesw-resize"
    [] handle \in {"top", "bottom"} -> "ns-resize"
    [] handle \in {"left", "right"} -> "ew-resize"
    [] OTHER -> "default"

\* selectedImageAtom: the selected image when exactly one is selected,
\* else null
selectedImage(imgs, selected) ==
  LET selectedImages == SelectSeq(imgs, LAMBDA img : includes(selected, img.id))
  IN  IF Len(selectedImages) = 1 THEN <<selectedImages[1]>> ELSE Null

\* the canvas component, its hooks and the atoms they read, as one record
Canvas ==
  [images |-> images, selectedImageIds |-> selectedImageIds,
   storeReturn |-> storeReturn,
   interactionMode |-> interactionMode, cursor |-> cursor,
   resizeOperationRef |-> resizeOperationRef,
   isResizingRef |-> isResizingRef, hoveredHandleRef |-> hoveredHandleRef,
   dragOperationRef |-> dragOperationRef, isDraggingRef |-> isDraggingRef,
   isPanningRef |-> isPanningRef, lastPointerRef |-> lastPointerRef]

\* the handle findHandleAtPoint is asked for: the hooks ask only when one
\* image is selected
handleAt(c, hit) ==
  IF selectedImage(c.images, c.selectedImageIds) = Null THEN Null
  ELSE hit.handle

\* useResizeHandles.handleMouseDown: the canvas it leaves and its result
resizeHandleMouseDown(c, hit) ==
  LET selected == selectedImage(c.images, c.selectedImageIds)
      handle == handleAt(c, hit)
  IN  IF selected = Null \/ handle = Null
        THEN [canvas |-> c, result |-> FALSE]
        ELSE [canvas |->
                [c EXCEPT !.resizeOperationRef =
                            <<[imageId |-> selected[1].id,
                               handle |-> handle[1]]>>],
              result |-> TRUE]

\* useDragSelect.handleMouseDown: the canvas it leaves and its result
dragHandleMouseDown(c, shiftKey, hit) ==
  IF hit.image # Null
    THEN
      LET id == hit.image[1]
          isAlreadySelected == includes(c.selectedImageIds, id)
          imagesToDrag ==
            IF isAlreadySelected THEN c.selectedImageIds
            ELSE IF shiftKey THEN Append(c.selectedImageIds, id)
            ELSE <<id>>
          stored ==
            IF shiftKey
              THEN [c EXCEPT
                      !.selectedImageIds = toggleSelection(@, id),
                      !.storeReturn = StoreCall("toggleSelection", id, 0, 0)]
            ELSE IF ~isAlreadySelected
              THEN [c EXCEPT
                      !.selectedImageIds = <<id>>,
                      !.images = bringToFront(@, id),
                      !.storeReturn = StoreCall("bringToFront", id, 0, 0)]
            ELSE c
      IN  [canvas |->
             [stored EXCEPT !.dragOperationRef = <<[imageIds |-> imagesToDrag]>>],
           result |-> TRUE]
    ELSE IF ~shiftKey
      THEN [canvas |->
              [c EXCEPT !.selectedImageIds = <<>>,
                        !.storeReturn = StoreCall("selectImage", 0, 0, 0)],
            result |-> FALSE]
    ELSE [canvas |-> c, result |-> FALSE]

\* handlePanStart
handlePanStart(c, screenPoint) ==
  [c EXCEPT !.isPanningRef = TRUE, !.lastPointerRef = <<screenPoint>>]

\* the canvas's handleMouseDown
handleMouseDown(c, button, shiftKey, hit, screenPoint) ==
  IF button # 0 THEN c
  ELSE
    LET resized == resizeHandleMouseDown(c, hit)
        dragged == dragHandleMouseDown(c, shiftKey, hit)
    IN  IF resized.result
          THEN [resized.canvas EXCEPT !.interactionMode = "resizing"]
        ELSE IF dragged.result
          THEN [dragged.canvas EXCEPT !.interactionMode = "dragging"]
        ELSE [handlePanStart(dragged.canvas, screenPoint)
                EXCEPT !.interactionMode = "panning"]

\* checkHandleHover: the canvas it leaves and the handle it returns
checkHandleHover(c, hit) ==
  IF selectedImage(c.images, c.selectedImageIds) = Null
    THEN [canvas |-> c, handle |-> Null]
    ELSE [canvas |-> [c EXCEPT !.hoveredHandleRef = hit.handle],
          handle |-> hit.handle]

\* useResizeHandles.getCursor
getCursor(c) ==
  IF c.resizeOperationRef # Null
    THEN getHandleCursor(c.resizeOperationRef[1].handle)
  ELSE IF c.hoveredHandleRef # Null
    THEN getHandleCursor(c.hoveredHandleRef[1])
  ELSE "default"

\* the move handler of the hook of the given mode
operationMouseMove(c, mode, screenPoint) ==
  CASE mode = "resizing" ->
         IF c.resizeOperationRef = Null THEN c
         ELSE [c EXCEPT !.isResizingRef = TRUE]
    [] mode = "dragging" ->
         IF c.dragOperationRef = Null THEN c
         ELSE [c EXCEPT !.isDraggingRef = TRUE]
    [] mode = "panning" ->
         IF ~c.isPanningRef \/ c.lastPointerRef = Null THEN c
         ELSE [c EXCEPT !.lastPointerRef = <<screenPoint>>]
    [] OTHER -> c

\* the canvas's handleMouseMove
handleMouseMove(c, hit, screenPoint) ==
  LET hover == checkHandleHover(c, hit)
      hovered == hover.canvas
      pointed ==
        [hovered EXCEPT !.cursor =
           IF hover.handle # Null THEN getCursor(hovered)
           ELSE IF c.interactionMode = "panning" THEN "grabbing"
           ELSE IF c.interactionMode = "dragging" THEN "move"
           ELSE "default"]
  IN  operationMouseMove(pointed, c.interactionMode, screenPoint)

\* the canvas's handleMouseUp: the handleMouseUp of both hooks, handlePanEnd,
\* the mode and the cursor
handleMouseUp(c) ==
  [c EXCEPT
     !.resizeOperationRef = Null, !.isResizingRef = FALSE,
     !.dragOperationRef = Null, !.isDraggingRef = FALSE,
     !.isPanningRef = FALSE, !.lastPointerRef = Null,
     !.interactionMode = "idle",
     !.cursor = "default"]

\* the canvas's handleMouseLeave
handleMouseLeave(c) ==
  IF c.interactionMode # "idle" THEN handleMouseUp(c) ELSE c

\* the event a handler was called with, and the mode it found
MouseEvent(type, button, shiftKey, handle, image) ==
  [type |-> type, button |-> button, shiftKey |-> shiftKey,
   handle |-> handle, image |-> image, mode |-> interactionMode]

\* the canvas a handler leaves
SetInteraction(c, event) ==
  /\ images' = c.images
  /\ selectedImageIds' = c.selectedImageIds
  /\ storeReturn' = c.storeReturn
  /\ interactionMode' = c.interactionMode
  /\ cursor' = c.cursor
  /\ resizeOperationRef' = c.resizeOperationRef
  /\ isResizingRef' = c.isResizingRef
  /\ hoveredHandleRef' = c.hoveredHandleRef
  /\ dragOperationRef' = c.dragOperationRef
  /\ isDraggingRef' = c.isDraggingRef
  /\ isPanningRef' = c.isPanningRef
  /\ lastPointerRef' = c.lastPointerRef
  /\ mouseEvent' = event
  /\ UNCHANGED <<generated, compositorVars, hookVars, pureVars, glVars>>

\* what hit testing may find at the pointer: a handle or none, an image of
\* the canvas or none
Hits ==
  [handle : {Null} \cup { <<h>> : h \in HitHandles },
   image : {Null} \cup { <<images[i].id>> : i \in 1..Len(images) }]

\* one image on the canvas, not selected, no interaction under way
CanvasInit ==
  /\ images = addImage(<<>>, 2)
  /\ generated = 2
  /\ storeReturn = NoStoreCall
  /\ selectedImageIds = <<>>
  /\ InteractionIdle
  /\ RestIdle
  /\ PureIdle

MouseDown ==
  \E button \in {0, 2}, shiftKey \in BOOLEAN, hit \in Hits,
     screenPoint \in Points :
    LET c == handleMouseDown(Canvas, button, shiftKey, hit, screenPoint)
    IN  /\ \A i \in 1..Len(c.images) : c.images[i].zIndex <= MaxZ
        /\ SetInteraction(c, MouseEvent("mousedown", button, shiftKey,
                                        handleAt(Canvas, hit), hit.image))

MouseMove ==
  \E hit \in Hits, screenPoint \in Points :
    SetInteraction(handleMouseMove(Canvas, hit, screenPoint),
                   MouseEvent("mousemove", 0, FALSE, handleAt(Canvas, hit),
                              Null))

MouseUp ==
  SetInteraction(handleMouseUp(Canvas),
                 MouseEvent("mouseup", 0, FALSE, Null, Null))

MouseLeave ==
  SetInteraction(handleMouseLeave(Canvas),
                 MouseEvent("mouseleave", 0, FALSE, Null, Null))

CanvasNext == MouseDown \/ MouseMove \/ MouseUp \/ MouseLeave

CanvasSpec == CanvasInit /\ [][CanvasNext]_vars

\* the operations under way
ActiveOperations ==
  (IF resizeOperationRef # Null THEN {"resizing"} ELSE {})
    \cup (IF dragOperationRef # Null THEN {"dragging"} ELSE {})
    \cup (IF isPanningRef THEN {"panning"} ELSE {})

\* the operation a mouse-down starts by the priority resize handle > image
\* drag > pan
Chosen(event) ==
  IF event.handle # Null THEN "resizing"
  ELSE IF event.image # Null THEN "dragging"
  ELSE "panning"

\* the mode is idle and no operation is under way
AllEnded ==
  /\ interactionMode = "idle"
  /\ ActiveOperations = {}

\* C39: at most one of the resize, drag and pan operations is under way at
\* a time; a left mouse-down starts the one of highest priority among
\* resize handle, image drag and pan; after every mouse-up, and after a
\* mouse-leave in a mode other than idle, the mode is idle and no operation
\* is under way.
C39_OneOperationAtATime ==
  /\ Cardinality(ActiveOperations) <= 1
  /\ (mouseEvent.type = "mousedown" /\ mouseEvent.button = 0)
       => interactionMode = Chosen(mouseEvent)
  /\ mouseEvent.type = "mouseup" => AllEnded
  /\ (mouseEvent.type = "mouseleave" /\ mouseEvent.mode # "idle") => AllEnded

\* what holds of the code: the operation of the current mode is under way;
\* a left mouse-down that finds the canvas idle leaves exactly the one of
\* highest priority under way; a mouse-up and a mouse-leave in a mode other
\* than idle end every operation.
C39_OneOperationFromIdle ==
  /\ interactionMode = "idle" => ActiveOperations = {}
  /\ interactionMode # "idle" => interactionMode \in ActiveOperations
  /\ (mouseEvent.type = "mousedown" /\ mouseEvent.button = 0)
       => interactionMode = Chosen(mouseEvent)
  /\ (mouseEvent.type = "mousedown" /\ mouseEvent.button = 0
        /\ mouseEvent.mode = "idle")
       => ActiveOperations = {Chosen(mouseEvent)}
  /\ mouseEvent.type = "mouseup" => AllEnded
  /\ (mouseEvent.type = "mouseleave" /\ mouseEvent.mode # "idle") => AllEnded

\* a mouse-down on a handle while a drag is under way: both the drag and
\* the resize are under way
C39_TwoOperations ==
  /\ mouseEvent.type = "mousedown"
  /\ mouseEvent.mode = "dragging"
  /\ interactionMode = "resizing"
  /\ dragOperationRef # Null
  /\ resizeOperationRef # Null

\* a resize started from idle and ended by a mouse-up
C39_EndedWitness ==
  /\ mouseEvent.type = "mouseup"
  /\ mouseEvent.mode = "resizing"
  /\ AllEnded
  /\ Len(selectedImageIds) = 1

(***************************************************************************)
(* ResizeSpec: calculateResize of geometry.ts on its own.  The numbers of  *)
(* the rectangle are fractions n/d kept exactly, so that the products and  *)
(* quotients of the aspect-ratio step are what the arithmetic gives; the   *)
(* rounding of the floating-point numbers of the code is not followed.     *)
(***************************************************************************)

\* MIN_IMAGE_SIZE: the minimum image size in pixels
MIN_IMAGE_SIZE == 20

RECURSIVE Gcd(_, _)
Gcd(a, b) == IF b = 0 THEN a ELSE Gcd(b, a % b)

Magnitude(n) == IF n < 0 THEN -n ELSE n

\* the fraction n/d in lowest terms with a positive denominator
Fraction(n, d) ==
  LET g == Gcd(Magnitude(n), Magnitude(d))
      sign == IF d < 0 THEN -1 ELSE 1
  IN  [n |-> sign * (n \div g), d |-> sign * (d \div g)]

Whole(n) == [n |-> n, d |-> 1]

Plus(a, b) == Fraction(a.n * b.d + b.n * a.d, a.d * b.d)

Minus(a, b) == Fraction(a.n * b.d - b.n * a.d, a.d * b.d)

Times(a, b) == Fraction(a.n * b.n, a.d * b.d)

Over(a, b) == Fraction(a.n * b.d, a.d * b.n)

Less(a, b) == a.n * b.d < b.n * a.d

\* handle.includes("left")
includesLeft(handle) == handle \in {"top-left", "bottom-left", "left"}

\* handle.includes("top")
includesTop(handle) == handle \in {"top-left", "top-right", "top"}

\* handle.includes("bottom")
includesBottom(handle) == handle \in {"bottom-left", "bottom-right", "bottom"}

\* handle.includes("right")
includesRight(handle) == handle \in {"top-right", "bottom-right", "right"}

\* the rectangle after the switch on the handle: the edges of the handle
\* moved by the pointer delta
movedRect(handle, startRect, delta) ==
  LET r == startRect
      dx == delta.x
      dy == delta.y
  IN  CASE handle = "top-left" ->
             [x |-> Plus(r.x, dx), y |-> Plus(r.y, dy),
              width |-> Minus(r.width, dx), height |-> Minus(r.height, dy)]
        [] handle = "top-right" ->
             [r EXCEPT !.y = Plus(@, dy), !.width = Plus(@, dx),
                       !.height = Minus(@, dy)]
        [] handle = "bottom-left" ->
             [r EXCEPT !.x = Plus(@, dx), !.width = Minus(@, dx),
                       !.height = Plus(@, dy)]
        [] handle = "bottom-right" ->
             [r EXCEPT !.width = Plus(@, dx), !.height = Plus(@, dy)]
        [] handle = "top" ->
             [r EXCEPT !.y = Plus(@, dy), !.height = Minus(@, dy)]
        [] handle = "right" -> [r EXCEPT !.width = Plus(@, dx)]
        [] handle = "bottom" -> [r EXCEPT !.height = Plus(@, dy)]
        [] handle = "left" ->
             [r EXCEPT !.x = Plus(@, dx), !.width = Minus(@, dx)]
        [] OTHER -> r

\* the minimum size enforced on a moved rectangle
enforceMinimum(handle, startRect, moved) ==
  LET min == Whole(MIN_IMAGE_SIZE)
      wide ==
        IF Less(moved.width, min)
          THEN [moved EXCEPT
                  !.x = IF includesLeft(handle)
                          THEN Minus(Plus(startRect.x, startRect.width), min)
                          ELSE @,
                  !.width = min]
          ELSE moved
  IN  IF Less(wide.height, min)
        THEN [wide EXCEPT
                !.y = IF includesTop(handle)
                        THEN Minus(Plus(startRect.y, startRect.height), min)
                        ELSE @,
                !.height = min]
        ELSE wide

\* the aspect ratio of the start rectangle given back to a rectangle
keepAspectRatio(handle, startRect, rect) ==
  LET aspectRatio == Over(startRect.width, startRect.height)
      two == Whole(2)
  IN  IF handle \in {"top", "bottom"}
        THEN LET newWidth == Times(rect.height, aspectRatio)
             IN  [rect EXCEPT
                    !.x = Plus(startRect.x,
                               Over(Minus(startRect.width, newWidth), two)),
                    !.width = newWidth]
      ELSE IF handle \in {"left", "right"}
        THEN LET newHeight == Over(rect.width, aspectRatio)
             IN  [rect EXCEPT
                    !.y = Plus(startRect.y,
                               Over(Minus(startRect.height, newHeight), two)),
                    !.height = newHeight]
      ELSE LET currentRatio == Over(rect.width, rect.height)
           IN  IF Less(aspectRatio, currentRatio)
                 THEN [rect EXCEPT !.width = Times(rect.height, aspectRatio)]
                 ELSE [rect EXCEPT !.height = Over(rect.width, aspectRatio)]

\* calculateResize
calculateResize(handle, startRect, delta, maintainAspectRatio) ==
  LET sized == enforceMinimum(handle, startRect,
                              movedRect(handle, startRect, delta))
  IN  IF maintainAspectRatio
           /\ (includesTop(handle) \/ includesBottom(handle)
                 \/ includesLeft(handle) \/ includesRight(handle))
        THEN keepAspectRatio(handle, startRect, sized)
        ELSE sized

\* ResizeHandlePosition
ResizeHandlePositions ==
  {"top-left", "top-right", "bottom-left", "bottom-right",
   "top", "right", "bottom", "left"}

\* the start rectangles of the calls: images at least as large as the
\* minimum size
StartRects ==
  { [x |-> Whole(x), y |-> Whole(y), width |-> Whole(w), height |-> Whole(h)] :
      x \in {0, 10}, y \in {0, 10}, w \in {20, 40}, h \in {20, 60} }

\* the pointer deltas of the calls
Deltas == { [x |-> Whole(dx), y |-> Whole(dy)] :
              dx \in {-30, 0, 30}, dy \in {-30, 0, 50} }

ResizeInit ==
  /\ \E handle \in ResizeHandlePositions, startRect \in StartRects,
        delta \in Deltas, maintainAspectRatio \in BOOLEAN :
       arg = [handle |-> handle, startRect |-> startRect, delta |-> delta,
              maintainAspectRatio |-> maintainAspectRatio]
  /\ ret = <<>>
  /\ phase = "resize"
  /\ RestIdle
  /\ StoreIdle

CalculateResize ==
  /\ phase = "resize"
  /\ ret' = calculateResize(arg.handle, arg.startRect, arg.delta,
                            arg.maintainAspectRatio)
  /\ phase' = "rect"
  /\ UNCHANGED <<arg, compositorVars, hookVars, glVars, storeVars>>

ResizeNext == CalculateResize

ResizeSpec == ResizeInit /\ [][ResizeNext]_vars

\* the width the handle was dragged to is below the minimum
WidthClamped ==
  Less(movedRect(arg.handle, arg.startRect, arg.delta).width,
       Whole(MIN_IMAGE_SIZE))

\* the height the handle was dragged to is below the minimum
HeightClamped ==
  Less(movedRect(arg.handle, arg.startRect, arg.delta).height,
       Whole(MIN_IMAGE_SIZE))

\* the returned rectangle is at least of the minimum size
AtLeastMinimum ==
  /\ ~Less(ret.width, Whole(MIN_IMAGE_SIZE))
  /\ ~Less(ret.height, Whole(MIN_IMAGE_SIZE))

\* a clamped left handle leaves the right edge, a clamped top handle the
\* bottom edge, where the start rectangle has it
OppositeEdgeStays ==
  /\ (includesLeft(arg.handle) /\ WidthClamped)
       => Plus(ret.x, ret.width) = Plus(arg.startRect.x, arg.startRect.width)
  /\ (includesTop(arg.handle) /\ HeightClamped)
       => Plus(ret.y, ret.height) = Plus(arg.startRect.y, arg.startRect.height)

\* C40: for every handle, start rectangle, pointer delta and
\* maintainAspectRatio setting the rectangle calculateResize returns has
\* width >= MIN_IMAGE_SIZE and height >= MIN_IMAGE_SIZE, and when a left or
\* top handle is clamped the opposite (right or bottom) edge stays where the
\* start rectangle has it.
C40_MinimumSizeEnforced ==
  phase = "rect" => AtLeastMinimum /\ OppositeEdgeStays

\* what holds of the code: without maintainAspectRatio the rectangle is at
\* least of the minimum size and a clamped left or top handle leaves the
\* opposite edge in place; with maintainAspectRatio the rectangle has the
\* aspect ratio of the start rectangle, and the side an edge handle drags
\* is at least of the minimum size.
C40_MinimumSizeFreeRatio ==
  phase = "rect" =>
    /\ ~arg.maintainAspectRatio => AtLeastMinimum /\ OppositeEdgeStays
    /\ arg.maintainAspectRatio =>
         /\ Times(ret.width, arg.startRect.height) =
              Times(ret.height, arg.startRect.width)
         /\ arg.handle \in {"top", "bottom"}
              => ~Less(ret.height, Whole(MIN_IMAGE_SIZE))
         /\ arg.handle \in {"left", "right"}
              => ~Less(ret.width, Whole(MIN_IMAGE_SIZE))

\* the right handle of a 40 x 20 rectangle dragged in by 30 with the aspect
\* ratio kept: the width is clamped to the minimum and the height is half
\* of it
C40_BelowMinimum ==
  /\ phase = "rect"
  /\ arg.maintainAspectRatio
  /\ arg.handle = "right"
  /\ arg.startRect.width = Whole(40)
  /\ arg.startRect.height = Whole(20)
  /\ ret.width = Whole(MIN_IMAGE_SIZE)
  /\ ret.height = Whole(10)

\* the top-left handle clamped with the aspect ratio kept: the right edge
\* has moved
C40_EdgeMoved ==
  /\ phase = "rect"
  /\ arg.maintainAspectRatio
  /\ arg.handle = "top-left"
  /\ WidthClamped
  /\ Plus(ret.x, ret.width) # Plus(arg.startRect.x, arg.startRect.width)

====
